---- MODULE Spec2Model ----
(***************************************************************************)
(* A model of the marshaling layer of the vector-database client library:  *)
(* schema construction (src/src/schema.rs), column containers and their    *)
(* wire conversions (src/src/common.rs), the status check                  *)
(* (src/src/utils.rs), and the client with its request interceptor and     *)
(* its calls create_collection, drop_collection, has_collection, query     *)
(* and search (src/src/client.rs).                                         *)
(*                                                                         *)
(* The state is the last operation the application performed: its name     *)
(* (op), its argument (arg), what it returned (ret) and the requests it    *)
(* handed to the transport (sent).  A Rust panic is a returned value with  *)
(* tag "Panic".  Rust values are records; Option<T> is a record with the   *)
(* field some, Result<T, E> a record with tag "Ok" or "Err".  client is  *)
(* the Client the application holds, if it has constructed one.            *)
(***************************************************************************)
EXTENDS Integers, Sequences, FiniteSets, TLC

VARIABLES op, arg, ret, sent, client

vars == <<op, arg, ret, sent, client>>

(***************************************************************************)
(* Bounds of the model.                                                    *)
(***************************************************************************)
\* Longest field list handed to CollectionSchema::new.
MaxFields == 2
\* Longest column buffer enumerated element by element.
MaxLen == 2

(***************************************************************************)
(* Rust's Option, Result and panic.                                        *)
(***************************************************************************)
None == [some |-> FALSE]
Some(v) == [some |-> TRUE, val |-> v]
Ok(v) == [tag |-> "Ok", val |-> v]
Err(e) == [tag |-> "Err", err |-> e]
Panic(m) == [tag |-> "Panic", msg |-> m]
Unit == [unit |-> TRUE]

\* A function that returned v (one that cannot fail except by panicking).
Ret(v) == [tag |-> "Ret", val |-> v]

\* All sequences over S of length at most n.
SeqUpTo(S, n) == UNION {[1..k -> S] : k \in 0..n}

\* A buffer of n copies of x.
Fill(x, n) == [i \in 1..n |-> x]

(***************************************************************************)
(* Decimal strings.  A numeric string is a sequence of one-character       *)
(* strings, so that formatting and parsing are computed, not assumed.      *)
(***************************************************************************)
Digits == <<"0", "1", "2", "3", "4", "5", "6", "7", "8", "9">>

RECURSIVE NatToString(_)
NatToString(n) ==
    IF n < 10 THEN <<Digits[n + 1]>>
    ELSE Append(NatToString(n \div 10), Digits[(n % 10) + 1])

\* i32::to_string / i64::to_string
to_string(n) == IF n < 0 THEN <<"-">> \o NatToString(-n) ELSE NatToString(n)

DigitValue(c) == CHOOSE d \in 0..9 : Digits[d + 1] = c
IsDigit(c) == \E d \in 0..9 : Digits[d + 1] = c

RECURSIVE DigitsToNat(_)
DigitsToNat(s) ==
    IF s = <<>> THEN 0
    ELSE 10 * DigitsToNat(SubSeq(s, 1, Len(s) - 1)) + DigitValue(s[Len(s)])

\* str::parse::<i32>().ok() / str::parse::<i64>().ok(): an optional sign, then
\* one or more decimal digits; anything else is None.  (The strings of the
\* model are short, so the out-of-range error of parse is not reached.)
ParseInt(s) ==
    LET signed == s # <<>> /\ s[1] \in {"+", "-"}
        body == IF signed THEN Tail(s) ELSE s
    IN  IF body = <<>> \/ \E i \in 1..Len(body) : ~IsDigit(body[i]) THEN None
        ELSE IF signed /\ s[1] = "-" THEN Some(0 - DigitsToNat(body))
        ELSE Some(DigitsToNat(body))

(***************************************************************************)
(* DataType and its wire codes (common.rs).  schema.rs uses the generated  *)
(* enumeration of the same twelve names, matched exhaustively there.       *)
(***************************************************************************)
DataTypes ==
    {"None", "Bool", "Int8", "Int16", "Int32", "Int64", "Float", "Double",
     "String", "VarChar", "BinaryVector", "FloatVector"}

\* The discriminants had they been left implicit: 0, 1, 2, ...
DataTypeCodeImplicit(dt) ==
    CASE dt = "None" -> 0
      [] dt = "Bool" -> 1
      [] dt = "Int8" -> 2
      [] dt = "Int16" -> 3
      [] dt = "Int32" -> 4
      [] dt = "Int64" -> 5
      [] dt = "Float" -> 6
      [] dt = "Double" -> 7
      [] dt = "String" -> 8
      [] dt = "VarChar" -> 9
      [] dt = "BinaryVector" -> 10
      [] dt = "FloatVector" -> 11

\* data_type as i32
DataTypeCode(dt) ==
    CASE dt = "None" -> 0
      [] dt = "Bool" -> 1
      [] dt = "Int8" -> 2
      [] dt = "Int16" -> 3
      [] dt = "Int32" -> 4
      [] dt = "Int64" -> 5
      [] dt = "Float" -> 10
      [] dt = "Double" -> 11
      [] dt = "String" -> 20
      [] dt = "VarChar" -> 21
      [] dt = "BinaryVector" -> 100
      [] dt = "FloatVector" -> 101

\* DataType::from_i32 (derived FromPrimitive): the variant whose discriminant
\* is n, if any.
DataTypeFromI32(n) ==
    IF \E dt \in DataTypes : DataTypeCode(dt) = n
    THEN Some(CHOOSE dt \in DataTypes : DataTypeCode(dt) = n)
    ELSE None

(***************************************************************************)
(* FieldType, FieldSchema, CollectionSchema (schema.rs).                   *)
(***************************************************************************)
FtPlain(k) == [kind |-> k]
FtInt64(pk, auto) == [kind |-> "Int64", pk |-> pk, auto |-> auto]
FtVarChar(ml, pk, auto) ==
    [kind |-> "VarChar", max_length |-> ml, pk |-> pk, auto |-> auto]
FtVector(k, dim) == [kind |-> k, dim |-> dim]

\* impl From<FieldType> for DataType
FieldTypeToDataType(ty) ==
    CASE ty.kind = "None" -> "None"
      [] ty.kind = "Bool" -> "Bool"
      [] ty.kind = "Int8" -> "Int8"
      [] ty.kind = "Int16" -> "Int16"
      [] ty.kind = "Int32" -> "Int32"
      [] ty.kind = "Int64" -> "Int64"
      [] ty.kind = "Float" -> "Float"
      [] ty.kind = "Double" -> "Double"
      [] ty.kind = "String" -> "String"
      [] ty.kind = "VarChar" -> "VarChar"
      [] ty.kind = "BinaryVector" -> "BinaryVector"
      [] ty.kind = "FloatVector" -> "FloatVector"

\* FieldSchema::new: description None becomes the empty string.
FieldSchema_new(name, ty, description) ==
    [name |-> name,
     desc |-> IF description.some THEN description.val ELSE "",
     ty |-> ty]

\* A check whose last arm takes every other type for a primary key.
is_primaryOtherwiseTrue(f) ==
    CASE f.ty.kind = "Int64" -> f.ty.pk
      [] f.ty.kind = "VarChar" -> f.ty.pk
      [] OTHER -> TRUE

\* FieldSchema::is_primary
is_primary(f) ==
    CASE f.ty.kind = "Int64" -> f.ty.pk
      [] f.ty.kind = "VarChar" -> f.ty.pk
      [] OTHER -> FALSE

\* Error::from(SchemaError)
SchemaErr(e) == [kind |-> "Schema", schema |-> e]
NoPrimaryKey == [kind |-> "NoPrimaryKey"]
DuplicatePrimaryKey(a, b) == [kind |-> "DuplicatePrimaryKey", a |-> a, b |-> b]

\* A constructor that looks for the primary key in the first field only.
CollectionSchema_newFirstOnly(name, fields, description) ==
    IF ~(fields # <<>> /\ is_primary(fields[1]))
    THEN Err(SchemaErr(NoPrimaryKey))
    ELSE Ok([name |-> name,
             description |-> IF description.some THEN description.val ELSE "",
             fields |-> fields])

\* A constructor that also rejects a list in which two fields share a name.
CollectionSchema_newUniqueNames(name, fields, description) ==
    LET has_primary == \E i \in 1..Len(fields) : is_primary(fields[i])
    IN  IF ~has_primary
        THEN Err(SchemaErr(NoPrimaryKey))
        ELSE IF \E i, j \in 1..Len(fields) : i # j /\ fields[i].name = fields[j].name
        THEN Err(SchemaErr([kind |-> "DuplicateFieldName"]))
        ELSE Ok([name |-> name,
                 description |-> IF description.some THEN description.val ELSE "",
                 fields |-> fields])

\* CollectionSchema::new: the loop sets has_primary at the first primary-key
\* field and breaks; nothing else is checked.
CollectionSchema_new(name, fields, description) ==
    LET has_primary == \E i \in 1..Len(fields) : is_primary(fields[i])
    IN  IF ~has_primary
        THEN Err(SchemaErr(NoPrimaryKey))
        ELSE Ok([name |-> name,
                 description |-> IF description.some THEN description.val ELSE "",
                 fields |-> fields])

\* impl From<FieldSchema> for proto FieldSchema.  The struct expression
\* evaluates its fields in the order written, and the first one is
\* field_id: unimplemented!(): the conversion panics for every field, after
\* type_params and data_type have been computed.
FieldSchemaIntoProto(field) ==
    LET is_primary_key ==
            IF field.ty.kind \in {"Int64", "VarChar"} THEN field.ty.pk ELSE FALSE
        auto_id ==
            IF field.ty.kind \in {"Int64", "VarChar"} THEN field.ty.auto ELSE FALSE
        type_params ==
            CASE field.ty.kind = "Int64" -> <<>>
              [] field.ty.kind = "VarChar" ->
                    <<[key |-> "max_length", value |-> to_string(field.ty.max_length)]>>
              [] field.ty.kind \in {"BinaryVector", "FloatVector"} ->
                    <<[key |-> "dim", value |-> to_string(field.ty.dim)]>>
              [] OTHER -> <<>>
        data_type == FieldTypeToDataType(field.ty)
    IN  Panic("not implemented")

\* impl From<CollectionSchema> for proto CollectionSchema: the fields are
\* converted in order, so the first field's panic is the conversion's.
CollectionSchemaIntoProto(schema) ==
    LET conv == [i \in 1..Len(schema.fields) |->
                    FieldSchemaIntoProto(schema.fields[i])]
    IN  IF \E i \in 1..Len(conv) : conv[i].tag = "Panic"
        THEN conv[CHOOSE i \in 1..Len(conv) :
                    /\ conv[i].tag = "Panic"
                    /\ \A j \in 1..(i - 1) : conv[j].tag # "Panic"]
        ELSE Ret([name |-> schema.name,
                  description |-> schema.description,
                  auto_id |-> FALSE,
                  fields |-> [i \in 1..Len(conv) |-> conv[i].val]])

(***************************************************************************)
(* Status codes and status_to_result (utils.rs, error.rs).                 *)
(***************************************************************************)
\* The generated enumeration proto::common::ErrorCode.  The sources name
\* only Success; the model carries three of its values.
ErrorCodes == {"Success", "UnexpectedError", "CollectionNotExists"}

ErrorCodeValue(e) ==
    CASE e = "Success" -> 0
      [] e = "UnexpectedError" -> 1
      [] e = "CollectionNotExists" -> 4

\* ErrorCode::from_i32
ErrorCodeFromI32(n) ==
    IF \E e \in ErrorCodes : ErrorCodeValue(e) = n
    THEN Some(CHOOSE e \in ErrorCodes : ErrorCodeValue(e) = n)
    ELSE None

Unexpected(msg) == [kind |-> "Unexpected", msg |-> msg]
Server(code, reason) == [kind |-> "Server", code |-> code, reason |-> reason]
Grpc(status) == [kind |-> "Grpc", status |-> status]

\* A conversion that files the status of the server under the schema errors.
ErrorFromStatusAsSchema(s) ==
    LET code == ErrorCodeFromI32(s.error_code)
    IN  IF code.some THEN Ret(SchemaErr([kind |-> "NoSuchKey", key |-> s.reason]))
        ELSE Panic("called Option::unwrap() on a None value")

\* impl From<Status> for Error: Server(from_i32(code).unwrap(), reason).
ErrorFromStatus(s) ==
    LET code == ErrorCodeFromI32(s.error_code)
    IN  IF code.some THEN Ret(Server(code.val, s.reason))
        ELSE Panic("called Option::unwrap() on a None value")

\* A status check that takes every present status for a success.
status_to_resultAnyOk(status) ==
    IF ~status.some THEN Err(Unexpected(<<"no status">>)) ELSE Ok(Unit)

\* status_to_result
status_to_result(status) ==
    IF ~status.some THEN Err(Unexpected(<<"no status">>))
    ELSE LET code == ErrorCodeFromI32(status.val.error_code)
         IN  IF code.some
             THEN IF code.val = "Success" THEN Ok(Unit)
                  ELSE LET e == ErrorFromStatus(status.val)
                       IN  IF e.tag = "Panic" THEN e ELSE Err(e.val)
             ELSE Err(Unexpected(<<"unknown error code ">>
                                 \o to_string(status.val.error_code)))

(***************************************************************************)
(* Client::new and the request interceptor (client.rs).  A text that is    *)
(* encoded is a sequence of one-character strings.                         *)
(***************************************************************************)
UpperChars ==
    <<"A", "B", "C", "D", "E", "F", "G", "H", "I", "J", "K", "L", "M",
      "N", "O", "P", "Q", "R", "S", "T", "U", "V", "W", "X", "Y", "Z">>
LowerChars ==
    <<"a", "b", "c", "d", "e", "f", "g", "h", "i", "j", "k", "l", "m",
      "n", "o", "p", "q", "r", "s", "t", "u", "v", "w", "x", "y", "z">>

\* The position of c in the sequence s.
IndexOf(s, c) == CHOOSE i \in 1..Len(s) : s[i] = c
Occurs(s, c) == \E i \in 1..Len(s) : s[i] = c

\* The byte of a character of a String (the texts of the model are ASCII
\* letters, digits and the four marks below, one byte each in UTF-8).
AsciiCode(c) ==
    CASE Occurs(UpperChars, c) -> 64 + IndexOf(UpperChars, c)
      [] Occurs(LowerChars, c) -> 96 + IndexOf(LowerChars, c)
      [] Occurs(Digits, c) -> 47 + IndexOf(Digits, c)
      [] c = "+" -> 43
      [] c = "/" -> 47
      [] c = ":" -> 58
      [] c = "=" -> 61

\* String::as_bytes
Bytes(text) == [i \in 1..Len(text) |-> AsciiCode(text[i])]

\* The alphabet of base64::engine::general_purpose::STANDARD.
Base64Alphabet == UpperChars \o LowerChars \o Digits \o <<"+", "/">>

\* general_purpose::STANDARD.encode: three bytes become four characters of
\* the alphabet, the last group is padded with "=".
RECURSIVE Base64Encode(_)
Base64Encode(b) ==
    LET A == Base64Alphabet
    IN  IF Len(b) = 0 THEN <<>>
        ELSE IF Len(b) = 1
        THEN <<A[(b[1] \div 4) + 1], A[((b[1] % 4) * 16) + 1], "=", "=">>
        ELSE IF Len(b) = 2
        THEN <<A[(b[1] \div 4) + 1],
               A[((b[1] % 4) * 16) + (b[2] \div 16) + 1],
               A[((b[2] % 16) * 4) + 1], "=">>
        ELSE <<A[(b[1] \div 4) + 1],
               A[((b[1] % 4) * 16) + (b[2] \div 16) + 1],
               A[((b[2] % 16) * 4) + (b[3] \div 64) + 1],
               A[(b[3] % 64) + 1]>>
             \o Base64Encode(SubSeq(b, 4, Len(b)))

\* The default of Client::new's timeout, in seconds.
DefaultTimeoutSecs == 10

InvalidParameter(name, value) ==
    [kind |-> "InvalidParameter", name |-> name, value |-> value]
Communication(e) == [kind |-> "Communication", error |-> e]

\* A constructor that takes a user name alone for a credential.
Client_newUserOnly(host, port, username, password, timeout, outcome) ==
    LET token == IF username.some
                 THEN Some(Base64Encode(Bytes(
                        username.val \o <<":">>
                        \o (IF password.some THEN password.val ELSE <<>>))))
                 ELSE None
    IN  IF outcome = "invalid_url"
        THEN Err(InvalidParameter("url", "to parse"))
        ELSE IF outcome = "connect_failed"
        THEN Err(Communication("transport error"))
        ELSE Ok([url |-> [host |-> host, port |-> port],
                 timeout |-> IF timeout.some THEN timeout.val ELSE DefaultTimeoutSecs,
                 interceptor |-> [token |-> token]])

\* Client::new.  outcome is what the transport library makes of the address:
\* it does not parse, the connection fails, or the channel is connected.
\* The token is computed before the connection is tried.
Client_new(host, port, username, password, timeout, outcome) ==
    LET token == IF username.some /\ password.some
                 THEN Some(Base64Encode(Bytes(
                        username.val \o <<":">> \o password.val)))
                 ELSE None
    IN  IF outcome = "invalid_url"
        THEN Err(InvalidParameter("url", "to parse"))
        ELSE IF outcome = "connect_failed"
        THEN Err(Communication("transport error"))
        ELSE Ok([url |-> [host |-> host, port |-> port],
                 timeout |-> IF timeout.some THEN timeout.val ELSE DefaultTimeoutSecs,
                 interceptor |-> [token |-> token]])

\* str::parse::<MetadataValue<Ascii>>: a text of visible ASCII characters is
\* a header value.
ParseMetadataValue(text) ==
    IF \A i \in 1..Len(text) : AsciiCode(text[i]) \in 32..126
    THEN Some(text) ELSE None

\* MetadataMap::insert: the entry of the key is replaced.
MetadataInsert(metadata, key, value) ==
    {kv \in metadata : kv.key # key} \cup {[key |-> key, value |-> value]}

\* AuthInterceptor::call: with a token, the request gets the entry
\* authorization, whose value is the token itself.
AuthInterceptor_call(interceptor, req) ==
    IF interceptor.token.some
    THEN LET header_value == ParseMetadataValue(interceptor.token.val)
         IN  IF header_value.some
             THEN Ok([req EXCEPT !.metadata =
                        MetadataInsert(req.metadata, "authorization", header_value.val)])
             ELSE Panic("called Option::unwrap() on a None value")
    ELSE Ok(req)

\* tonic::Request::new(message) on its way through the InterceptedService of
\* the client: the request as the channel gets it, or the interceptor's
\* panic.
Intercepted(self, method, message) ==
    AuthInterceptor_call(self.interceptor,
                         [method |-> method, metadata |-> {}, message |-> message])

(***************************************************************************)
(* create_collection (client.rs).                                          *)
(***************************************************************************)
ConsistencyLevels == {"Strong", "Session", "Bounded", "Eventually", "Customized"}

\* consistency_level as i32
ConsistencyLevelCode(l) ==
    CASE l = "Strong" -> 0
      [] l = "Session" -> 1
      [] l = "Bounded" -> 2
      [] l = "Eventually" -> 3
      [] l = "Customized" -> 4

\* new_msg: the message type is kept by name (its number is that of the generated
\* enumeration).
new_msg(mtype) ==
    [msg_type |-> mtype, timestamp |-> 0, source_id |-> 0, msg_id |-> 0,
     target_id |-> 0]

\* Message::encode of the transport library: the bytes of a message, kept as
\* the message they encode.
Encode(msg) == [bytes_of |-> msg]

\* The orders in which a HashMap with the entries kvs can be iterated.
Orderings(kvs) ==
    {s \in [1..Cardinality(kvs) -> kvs] :
        \A i, j \in 1..Cardinality(kvs) : i # j => s[i] # s[j]}

\* Client::create_collection.  props is the iteration order of the property
\* map, reply what the transport returns for the request.  The result is
\* what the call returns and what it handed to the channel.
\* level.unwrap_or(ConsistencyLevel::Session)
DefaultConsistencyLevel == "Session"

create_collection(self, collection_name, schema, shards_num, level, props, reply) ==
    LET conv == CollectionSchemaIntoProto(schema)
    IN  IF conv.tag = "Panic" THEN [ret |-> conv, sent |-> <<>>]
        ELSE LET request ==
                    [base |-> Some(new_msg("CreateCollection")),
                     collection_name |-> collection_name,
                     schema |-> Encode(conv.val),
                     shards_num |-> IF shards_num.some THEN shards_num.val ELSE 2,
                     consistency_level |->
                        ConsistencyLevelCode(IF level.some THEN level.val
                                             ELSE DefaultConsistencyLevel),
                     properties |-> props]
                 req == Intercepted(self, "CreateCollection", request)
             IN  IF req.tag = "Panic" THEN [ret |-> req, sent |-> <<>>]
                 ELSE [ret |-> IF reply.tag = "TransportError"
                               THEN Err(Grpc(reply.status))
                               ELSE status_to_result(Some(reply.status)),
                       sent |-> <<req.val>>]

(***************************************************************************)
(* Wire fields back to FieldSchema (schema.rs).                            *)
(***************************************************************************)
UnwrapNone == Panic("called Option::unwrap() on a None value")

\* type_params.iter().find(|kv| kv.key == key).and_then(|kv| kv.value.parse().ok())
FindParam(type_params, key) ==
    IF \E i \in 1..Len(type_params) : type_params[i].key = key
    THEN ParseInt(type_params[CHOOSE i \in 1..Len(type_params) :
                    /\ type_params[i].key = key
                    /\ \A j \in 1..(i - 1) : type_params[j].key # key].value)
    ELSE None

\* impl From<proto FieldSchema> for FieldSchema: the type tag and the type
\* parameter are unwrapped.
FieldSchemaFromProto(field) ==
    LET data_type == DataTypeFromI32(field.data_type)
        max_length == FindParam(field.type_params, "max_length")
        dim == FindParam(field.type_params, "dim")
        done(ty) == Ret([name |-> field.name, desc |-> field.description, ty |-> ty])
    IN  IF ~data_type.some THEN UnwrapNone
        ELSE CASE data_type.val = "Int64" ->
                    done(FtInt64(field.is_primary_key, field.auto_id))
               [] data_type.val = "VarChar" ->
                    IF max_length.some
                    THEN done(FtVarChar(max_length.val, field.is_primary_key,
                                        field.auto_id))
                    ELSE UnwrapNone
               [] data_type.val \in {"BinaryVector", "FloatVector"} ->
                    IF dim.some THEN done(FtVector(data_type.val, dim.val))
                    ELSE UnwrapNone
               [] OTHER -> done(FtPlain(data_type.val))

(***************************************************************************)
(* Column containers and their wire forms (common.rs).                     *)
(*   ScalarFieldData  [variant, v]        proto  [variant, arr: [data]]    *)
(*   VectorFieldData  [variant, v]        proto  BinaryVector [bytes],     *)
(*                                               FloatVector [arr: [data]] *)
(***************************************************************************)
\* impl From<ScalarFieldData> for proto scalar_field::Data
ScalarFieldDataIntoProto(data) ==
    CASE data.variant = "BoolData" -> [variant |-> "BoolData", arr |-> [data |-> data.v]]
      [] data.variant = "IntData" -> [variant |-> "IntData", arr |-> [data |-> data.v]]
      [] data.variant = "LongData" -> [variant |-> "LongData", arr |-> [data |-> data.v]]
      [] data.variant = "FloatData" -> [variant |-> "FloatData", arr |-> [data |-> data.v]]
      [] data.variant = "DoubleData" -> [variant |-> "DoubleData", arr |-> [data |-> data.v]]
      [] data.variant = "StringData" -> [variant |-> "StringData", arr |-> [data |-> data.v]]
      [] data.variant = "BytesData" -> [variant |-> "BytesData", arr |-> [data |-> data.v]]

\* A decoding that reads a 32-bit array as the 64-bit variant.
ScalarFieldDataFromProtoIntAsLong(data) ==
    CASE data.variant = "IntData" -> [variant |-> "LongData", v |-> data.arr.data]
      [] OTHER -> [variant |-> data.variant, v |-> data.arr.data]

\* impl From<proto scalar_field::Data> for ScalarFieldData
ScalarFieldDataFromProto(data) ==
    CASE data.variant = "BoolData" -> [variant |-> "BoolData", v |-> data.arr.data]
      [] data.variant = "IntData" -> [variant |-> "IntData", v |-> data.arr.data]
      [] data.variant = "LongData" -> [variant |-> "LongData", v |-> data.arr.data]
      [] data.variant = "FloatData" -> [variant |-> "FloatData", v |-> data.arr.data]
      [] data.variant = "DoubleData" -> [variant |-> "DoubleData", v |-> data.arr.data]
      [] data.variant = "StringData" -> [variant |-> "StringData", v |-> data.arr.data]
      [] data.variant = "BytesData" -> [variant |-> "BytesData", v |-> data.arr.data]

\* impl From<ScalarField> for proto ScalarField
ScalarFieldIntoProto(field) ==
    [data |-> IF field.data.some THEN Some(ScalarFieldDataIntoProto(field.data.val))
              ELSE None]

\* impl From<proto ScalarField> for ScalarField
ScalarFieldFromProto(field) ==
    [data |-> IF field.data.some THEN Some(ScalarFieldDataFromProto(field.data.val))
              ELSE None]

\* impl From<VectorFieldData> for proto vector_field::Data
VectorFieldDataIntoProto(data) ==
    CASE data.variant = "BinaryVec" -> [variant |-> "BinaryVector", bytes |-> data.v]
      [] data.variant = "FloatVec" ->
            [variant |-> "FloatVector", arr |-> [data |-> data.v]]

\* impl From<proto vector_field::Data> for VectorFieldData
VectorFieldDataFromProto(data) ==
    CASE data.variant = "BinaryVector" -> [variant |-> "BinaryVec", v |-> data.bytes]
      [] data.variant = "FloatVector" -> [variant |-> "FloatVec", v |-> data.arr.data]

\* VectorField::new
VectorField_new(dim, data) == [dim |-> dim, data |-> Some(data)]

\* impl From<VectorField> for proto VectorField
VectorFieldIntoProto(field) ==
    [dim |-> field.dim,
     data |-> IF field.data.some THEN Some(VectorFieldDataIntoProto(field.data.val))
              ELSE None]

\* impl From<proto VectorField> for VectorField
VectorFieldFromProto(field) ==
    [dim |-> field.dim,
     data |-> IF field.data.some THEN Some(VectorFieldDataFromProto(field.data.val))
              ELSE None]

\* impl From<Field> for proto field_data::Field
FieldIntoProto(field) ==
    CASE field.variant = "Scalars" ->
            [variant |-> "Scalars",
             f |-> [data |-> IF field.f.data.some
                             THEN Some(ScalarFieldDataIntoProto(field.f.data.val))
                             ELSE None]]
      [] field.variant = "Vectors" ->
            [variant |-> "Vectors",
             f |-> [dim |-> field.f.dim,
                    data |-> IF field.f.data.some
                             THEN Some(VectorFieldDataIntoProto(field.f.data.val))
                             ELSE None]]

\* impl From<proto field_data::Field> for Field
FieldFromProto(field) ==
    CASE field.variant = "Scalars" ->
            [variant |-> "Scalars", f |-> ScalarFieldFromProto(field.f)]
      [] field.variant = "Vectors" ->
            [variant |-> "Vectors", f |-> VectorFieldFromProto(field.f)]

\* len / (dim as usize) and len % (dim as usize) for dim # 0.  A negative dim
\* wraps, on a 32-bit and on a 64-bit target, to a usize above every buffer
\* length of the model: the quotient is 0 and the remainder is len.
UsizeDiv(len, dim) == IF dim < 0 THEN 0 ELSE len \div dim
UsizeRem(len, dim) == IF dim < 0 THEN len ELSE len % dim

\* A row count that drops the partial row.
VectorField_num_rowsFloor(field) ==
    IF ~field.data.some THEN Ret(0)
    ELSE IF field.dim = 0 THEN Panic("attempt to divide by zero")
    ELSE Ret(UsizeDiv(Len(field.data.val.v), field.dim))

\* VectorField::num_rows: both variants compute the same; the division by
\* (dim as usize) panics when dim is 0.  (The quotient fits u32 for every
\* buffer of the model, so the cast to u32 changes nothing.)
VectorField_num_rows(field) ==
    IF ~field.data.some THEN Ret(0)
    ELSE LET len == Len(field.data.val.v)
         IN  IF field.dim = 0 THEN Panic("attempt to divide by zero")
             ELSE LET c == UsizeDiv(len, field.dim)
                  IN  IF UsizeRem(len, field.dim) = 0 THEN Ret(c) ELSE Ret(c + 1)

\* FieldData::new
FieldData_new(name, dtype, field) ==
    [data_type |-> dtype, field_name |-> name, field_id |-> 0, field |-> field]

\* impl From<FieldData> for proto FieldData
FieldDataIntoProto(field_data) ==
    [type |-> DataTypeCode(field_data.data_type),
     field_name |-> field_data.field_name,
     field_id |-> field_data.field_id,
     field |-> IF field_data.field.some THEN Some(FieldIntoProto(field_data.field.val))
               ELSE None]

\* A conversion that builds the column as FieldData::new does, with the
\* field id 0.
FieldDataFromProtoNewId(field_data) ==
    LET data_type == DataTypeFromI32(field_data.type)
    IN  IF ~data_type.some THEN UnwrapNone
        ELSE Ret([data_type |-> data_type.val,
                  field_name |-> field_data.field_name,
                  field_id |-> 0,
                  field |-> IF field_data.field.some
                            THEN Some(FieldFromProto(field_data.field.val))
                            ELSE None])

\* impl From<proto FieldData> for FieldData: the type tag is unwrapped.
FieldDataFromProto(field_data) ==
    LET data_type == DataTypeFromI32(field_data.type)
    IN  IF ~data_type.some THEN UnwrapNone
        ELSE Ret([data_type |-> data_type.val,
                  field_name |-> field_data.field_name,
                  field_id |-> field_data.field_id,
                  field |-> IF field_data.field.some
                            THEN Some(FieldFromProto(field_data.field.val))
                            ELSE None])

\* ScalarField::dtype: the byte-array variant is answered with BinaryVector.
ScalarField_dtype(field) ==
    IF ~field.data.some THEN "None"
    ELSE CASE field.data.val.variant = "BoolData" -> "Bool"
           [] field.data.val.variant = "IntData" -> "Int32"
           [] field.data.val.variant = "LongData" -> "Int64"
           [] field.data.val.variant = "FloatData" -> "Float"
           [] field.data.val.variant = "DoubleData" -> "Double"
           [] field.data.val.variant = "StringData" -> "String"
           [] field.data.val.variant = "BytesData" -> "BinaryVector"

\* VectorFieldData::dtype
VectorFieldData_dtype(data) ==
    CASE data.variant = "BinaryVec" -> "BinaryVector"
      [] data.variant = "FloatVec" -> "FloatVector"

\* VectorField::dtype
VectorField_dtype(field) ==
    IF field.data.some THEN VectorFieldData_dtype(field.data.val) ELSE "None"

(***************************************************************************)
(* The calls of the client that carry a request to the server and convert  *)
(* its response (client.rs).  self is the client, reply what the channel    *)
(* returns for the request: a transport error or the response message.      *)
(* The result is what the call returns and what it handed to the channel.   *)
(***************************************************************************)
\* Client::drop_collection
drop_collection(self, collection_name, reply) ==
    LET request == [base |-> Some(new_msg("DropCollection")),
                    collection_name |-> collection_name]
        req == Intercepted(self, "DropCollection", request)
    IN  IF req.tag = "Panic" THEN [ret |-> req, sent |-> <<>>]
        ELSE [ret |-> IF reply.tag = "TransportError"
                      THEN Err(Grpc(reply.status))
                      ELSE status_to_result(Some(reply.status)),
              sent |-> <<req.val>>]

\* Client::has_collection
\* A has_collection that fills a request kept by the client and shared by
\* its calls: the name of a request still with the channel stays in it.
has_collectionSharedRequest(self, collection_name, time_stamp, reply) ==
    LET request == [base |-> Some(new_msg("HasCollection")),
                    collection_name |-> IF sent # <<>> /\ "call" \in DOMAIN sent[1]
                                        THEN sent[1].request.message.collection_name
                                        ELSE collection_name,
                    time_stamp |-> IF time_stamp.some THEN time_stamp.val ELSE 0]
        req == Intercepted(self, "HasCollection", request)
    IN  IF req.tag = "Panic" THEN [ret |-> req, sent |-> <<>>]
        ELSE [ret |-> IF reply.tag = "TransportError"
                      THEN Err(Grpc(reply.status))
                      ELSE LET checked == status_to_result(reply.response.status)
                           IN  IF checked.tag # "Ok" THEN checked
                               ELSE Ok(reply.response.value),
              sent |-> <<req.val>>]

has_collection(self, collection_name, time_stamp, reply) ==
    LET request == [base |-> Some(new_msg("HasCollection")),
                    collection_name |-> collection_name,
                    time_stamp |-> IF time_stamp.some THEN time_stamp.val ELSE 0]
        req == Intercepted(self, "HasCollection", request)
    IN  IF req.tag = "Panic" THEN [ret |-> req, sent |-> <<>>]
        ELSE [ret |-> IF reply.tag = "TransportError"
                      THEN Err(Grpc(reply.status))
                      ELSE LET checked == status_to_result(reply.response.status)
                           IN  IF checked.tag # "Ok" THEN checked
                               ELSE Ok(reply.response.value),
              sent |-> <<req.val>>]

\* fields_data.into_iter().map(|x| x.into()).collect(): the columns are
\* converted in order, and the first panic ends the conversion.
CollectFieldData(fields_data) ==
    LET conv == [i \in 1..Len(fields_data) |-> FieldDataFromProto(fields_data[i])]
    IN  IF \E i \in 1..Len(conv) : conv[i].tag = "Panic"
        THEN conv[CHOOSE i \in 1..Len(conv) :
                    /\ conv[i].tag = "Panic"
                    /\ \A j \in 1..(i - 1) : conv[j].tag # "Panic"]
        ELSE Ret([i \in 1..Len(conv) |-> conv[i].val])

\* Client::query.  query_params is the iteration order of the parameter map
\* (the empty sequence when the map is None).
query(self, db_name, collection_name, expr, output_fields, partition_names, travel_timestamp, guarantee_timestamp, query_params, reply) ==
    LET request == [base |-> Some(new_msg("Retrieve")),
                    db_name |-> db_name,
                    collection_name |-> collection_name,
                    expr |-> expr,
                    output_fields |-> output_fields,
                    partition_names |-> partition_names,
                    travel_timestamp |-> travel_timestamp,
                    guarantee_timestamp |-> guarantee_timestamp,
                    query_params |-> query_params]
        req == Intercepted(self, "Query", request)
    IN  IF req.tag = "Panic" THEN [ret |-> req, sent |-> <<>>]
        ELSE [ret |-> IF reply.tag = "TransportError"
                      THEN Err(Grpc(reply.status))
                      ELSE LET checked == status_to_result(reply.response.status)
                               cols == CollectFieldData(reply.response.fields_data)
                           IN  IF checked.tag # "Ok" THEN checked
                               ELSE IF cols.tag = "Panic" THEN cols
                               ELSE Ok([fields_data |-> cols.val,
                                        collection_name |->
                                            reply.response.collection_name]),
              sent |-> <<req.val>>]

\* impl From<proto i_ds::IdField> for IdField
IdFieldFromProto(id_field) ==
    CASE id_field.variant = "IntId" -> [variant |-> "IntId", v |-> id_field.arr.data]
      [] id_field.variant = "StrId" -> [variant |-> "StrId", v |-> id_field.arr.data]

\* impl From<proto IDs> for Id
IdFromProto(ids) ==
    [id_field |-> IF ids.id_field.some THEN Some(IdFieldFromProto(ids.id_field.val))
                  ELSE None]

\* impl From<proto SearchResultData> for SearchResultData: the columns are
\* converted before the scores, ids and topks are moved.
SearchResultDataFromProto(data) ==
    LET cols == CollectFieldData(data.fields_data)
    IN  IF cols.tag = "Panic" THEN cols
        ELSE Ret([num_queries |-> data.num_queries,
                  top_k |-> data.top_k,
                  fields_data |-> cols.val,
                  scores |-> data.scores,
                  id |-> IF data.ids.some THEN Some(IdFromProto(data.ids.val)) ELSE None,
                  topks |-> data.topks])

\* dsl_type as i32
DslTypeCode(t) ==
    CASE t = "Dsl" -> 0
      [] t = "BoolExprV1" -> 1

\* Client::search.  search_params is the iteration order of the parameter map.
search(self, db_name, collection_name, partition_names, dsl, placeholder_group, dsl_type, output_fields, search_params, travel_timestamp, guarantee_timestamp, nq, reply) ==
    LET request == [base |-> Some(new_msg("Search")),
                    db_name |-> db_name,
                    collection_name |-> collection_name,
                    partition_names |-> partition_names,
                    dsl |-> dsl,
                    placeholder_group |-> placeholder_group,
                    dsl_type |-> DslTypeCode(dsl_type),
                    output_fields |-> output_fields,
                    search_params |-> search_params,
                    travel_timestamp |-> travel_timestamp,
                    guarantee_timestamp |-> guarantee_timestamp,
                    nq |-> nq]
        req == Intercepted(self, "Search", request)
    IN  IF req.tag = "Panic" THEN [ret |-> req, sent |-> <<>>]
        ELSE [ret |-> IF reply.tag = "TransportError"
                      THEN Err(Grpc(reply.status))
                      ELSE LET checked == status_to_result(reply.response.status)
                               results ==
                                   IF reply.response.results.some
                                   THEN SearchResultDataFromProto(
                                            reply.response.results.val)
                                   ELSE Ret(Unit)
                           IN  IF checked.tag # "Ok" THEN checked
                               ELSE IF results.tag = "Panic" THEN results
                               ELSE Ok([results |->
                                            IF reply.response.results.some
                                            THEN Some(results.val) ELSE None,
                                        collection_name |->
                                            reply.response.collection_name]),
              sent |-> <<req.val>>]

(***************************************************************************)
(* insert and delete (client.rs) and insert of my_client.rs.               *)
(***************************************************************************)
\* A result whose insert count is taken from the index list.
MutationResultOfCounted(response) ==
    [id |-> IF response.i_ds.some THEN Some(IdFromProto(response.i_ds.val)) ELSE None,
     succ_index |-> response.succ_index,
     err_index |-> response.err_index,
     acknowledged |-> response.acknowledged,
     insert_cnt |-> Len(response.succ_index),
     delete_cnt |-> response.delete_cnt,
     upsert_cnt |-> response.upsert_cnt,
     timestamp |-> response.timestamp]

\* The MutationResult that insert and delete build from the response.
MutationResultOf(response) ==
    [id |-> IF response.i_ds.some THEN Some(IdFromProto(response.i_ds.val)) ELSE None,
     succ_index |-> response.succ_index,
     err_index |-> response.err_index,
     acknowledged |-> response.acknowledged,
     insert_cnt |-> response.insert_cnt,
     delete_cnt |-> response.delete_cnt,
     upsert_cnt |-> response.upsert_cnt,
     timestamp |-> response.timestamp]

\* What insert and delete return for a reply.
MutationReturn(reply) ==
    IF reply.tag = "TransportError" THEN Err(Grpc(reply.status))
    ELSE LET checked == status_to_result(reply.response.status)
         IN  IF checked.tag # "Ok" THEN checked
             ELSE Ok(MutationResultOf(reply.response))

\* Client::insert
insert(self, db_name, collection_name, partition_name, fields_data, hash_keys, num_rows, reply) ==
    LET request == [base |-> Some(new_msg("Insert")),
                    db_name |-> db_name,
                    collection_name |-> collection_name,
                    partition_name |-> partition_name,
                    fields_data |-> [i \in 1..Len(fields_data) |->
                                        FieldDataIntoProto(fields_data[i])],
                    hash_keys |-> hash_keys,
                    num_rows |-> num_rows]
        req == Intercepted(self, "Insert", request)
    IN  IF req.tag = "Panic" THEN [ret |-> req, sent |-> <<>>]
        ELSE [ret |-> MutationReturn(reply), sent |-> <<req.val>>]

\* Client::delete
delete(self, db_name, collection_name, partition_name, expr, hash_keys, reply) ==
    LET request == [base |-> Some(new_msg("Delete")),
                    db_name |-> db_name,
                    collection_name |-> collection_name,
                    partition_name |-> partition_name,
                    expr |-> expr,
                    hash_keys |-> hash_keys]
        req == Intercepted(self, "Delete", request)
    IN  IF req.tag = "Panic" THEN [ret |-> req, sent |-> <<>>]
        ELSE [ret |-> MutationReturn(reply), sent |-> <<req.val>>]

\* impl From<FieldData> for the wire FieldData of my_collection.rs: the type
\* is kept as the number it is.
MyFieldDataIntoProto(field_data) ==
    [type |-> field_data.data_type,
     field_name |-> field_data.field_name,
     field_id |-> field_data.field_id,
     field |-> IF field_data.field.some THEN Some(FieldIntoProto(field_data.field.val))
               ELSE None]

\* An insert that leaves num_rows at the default of the request.
my_client_insertRows(self, collection_name, partition_name, fields_data, reply) ==
    LET request == [base |-> Some(new_msg("Insert")),
                    collection_name |-> collection_name,
                    partition_name |-> partition_name,
                    num_rows |-> 0,
                    fields_data |-> [i \in 1..Len(fields_data) |->
                                        MyFieldDataIntoProto(fields_data[i])]]
        req == Intercepted(self, "Insert", request)
    IN  IF req.tag = "Panic" THEN [ret |-> req, sent |-> <<>>]
        ELSE [ret |-> MutationReturn(reply), sent |-> <<req.val>>]

\* Client::insert of my_client.rs: num_rows is fields_data.len().
my_client_insert(self, collection_name, partition_name, fields_data, reply) ==
    LET request == [base |-> Some(new_msg("Insert")),
                    collection_name |-> collection_name,
                    partition_name |-> partition_name,
                    num_rows |-> Len(fields_data),
                    fields_data |-> [i \in 1..Len(fields_data) |->
                                        MyFieldDataIntoProto(fields_data[i])]]
        req == Intercepted(self, "Insert", request)
    IN  IF req.tag = "Panic" THEN [ret |-> req, sent |-> <<>>]
        ELSE [ret |-> MutationReturn(reply), sent |-> <<req.val>>]

(***************************************************************************)
(* Row counts and types of columns (common.rs).                            *)
(***************************************************************************)
\* A count that takes any populated array for a single row.
ScalarField_num_rowsOne(field) ==
    IF field.data.some THEN 1 ELSE 0

\* ScalarField::num_rows: data.len() of the populated variant, 0 for None.
ScalarField_num_rows(field) ==
    IF field.data.some
    THEN CASE field.data.val.variant = "BoolData" -> Len(field.data.val.v)
           [] field.data.val.variant = "IntData" -> Len(field.data.val.v)
           [] field.data.val.variant = "LongData" -> Len(field.data.val.v)
           [] field.data.val.variant = "FloatData" -> Len(field.data.val.v)
           [] field.data.val.variant = "DoubleData" -> Len(field.data.val.v)
           [] field.data.val.variant = "StringData" -> Len(field.data.val.v)
           [] field.data.val.variant = "BytesData" -> Len(field.data.val.v)
    ELSE 0

\* Field::num_rows
Field_num_rows(field) ==
    CASE field.variant = "Scalars" -> Ret(ScalarField_num_rows(field.f))
      [] field.variant = "Vectors" -> VectorField_num_rows(field.f)

\* FieldData::num_rows
FieldData_num_rows(self) ==
    IF self.field.some THEN Field_num_rows(self.field.val) ELSE Ret(0)

\* Field::dtype
Field_dtype(field) ==
    CASE field.variant = "Scalars" -> ScalarField_dtype(field.f)
      [] field.variant = "Vectors" -> VectorField_dtype(field.f)

\* A dtype that asks the payload, and the declaration only without one.
FieldData_dtypeOfPayload(self) ==
    IF self.field.some THEN Field_dtype(self.field.val) ELSE self.data_type

\* FieldData::dtype
FieldData_dtype(self) ==
    self.data_type

(***************************************************************************)
(* Guarantee timestamps (utils.rs).                                        *)
(***************************************************************************)
STRONG_TIMESTAMP == 0
BOUNDED_TIMESTAMP == 2
EVENTUALLY_TIMESTAMP == 1

\* A get_gts that answers the Session level like the Strong one.
get_gtsSessionStrong(level) ==
    CASE level = "Strong" -> Ret(STRONG_TIMESTAMP)
      [] level = "Bounded" -> Ret(BOUNDED_TIMESTAMP)
      [] level = "Eventually" -> Ret(EVENTUALLY_TIMESTAMP)
      [] level = "Session" -> Ret(STRONG_TIMESTAMP)
      [] level = "Customized" -> Ret(0)

\* get_gts
get_gts(level) ==
    CASE level = "Strong" -> Ret(STRONG_TIMESTAMP)
      [] level = "Bounded" -> Ret(BOUNDED_TIMESTAMP)
      [] level = "Eventually" -> Ret(EVENTUALLY_TIMESTAMP)
      [] level = "Session" -> Panic("not implemented")
      [] level = "Customized" -> Ret(0)

(***************************************************************************)
(* Calls that decode an enumeration code of the response (client.rs).      *)
(***************************************************************************)
\* impl From<wire CollectionSchema> for CollectionSchema
CollectionSchemaFromProto(schema) ==
    LET conv == [i \in 1..Len(schema.fields) |-> FieldSchemaFromProto(schema.fields[i])]
    IN  IF \E i \in 1..Len(conv) : conv[i].tag = "Panic"
        THEN conv[CHOOSE i \in 1..Len(conv) :
                    /\ conv[i].tag = "Panic"
                    /\ \A j \in 1..(i - 1) : conv[j].tag # "Panic"]
        ELSE Ret([name |-> schema.name,
                  description |-> schema.description,
                  fields |-> [i \in 1..Len(conv) |-> conv[i].val]])

\* ConsistencyLevel::from_i32
ConsistencyLevelFromI32(n) ==
    IF \E l \in ConsistencyLevels : ConsistencyLevelCode(l) = n
    THEN Some(CHOOSE l \in ConsistencyLevels : ConsistencyLevelCode(l) = n)
    ELSE None

SegmentStates ==
    {"None", "NotExist", "Growing", "Sealed", "Flushed", "Flushing", "Dropped",
     "Importing"}

SegmentStateCode(s) ==
    CASE s = "None" -> 0
      [] s = "NotExist" -> 1
      [] s = "Growing" -> 2
      [] s = "Sealed" -> 3
      [] s = "Flushed" -> 4
      [] s = "Flushing" -> 5
      [] s = "Dropped" -> 6
      [] s = "Importing" -> 7

\* SegmentState::from_i32
SegmentStateFromI32(n) ==
    IF \E s \in SegmentStates : SegmentStateCode(s) = n
    THEN Some(CHOOSE s \in SegmentStates : SegmentStateCode(s) = n)
    ELSE None

CompactionStates == {"UndefiedState", "Executing", "Completed"}

CompactionStateCode(s) ==
    CASE s = "UndefiedState" -> 0
      [] s = "Executing" -> 1
      [] s = "Completed" -> 2

\* CompactionState::from_i32
CompactionStateFromI32(n) ==
    IF \E s \in CompactionStates : CompactionStateCode(s) = n
    THEN Some(CHOOSE s \in CompactionStates : CompactionStateCode(s) = n)
    ELSE None

ImportStates ==
    {"ImportPending", "ImportFailed", "ImportStarted", "ImportPersisted",
     "ImportCompleted", "ImportFailedAndCleaned"}

ImportStateCode(s) ==
    CASE s = "ImportPending" -> 0
      [] s = "ImportFailed" -> 1
      [] s = "ImportStarted" -> 2
      [] s = "ImportPersisted" -> 5
      [] s = "ImportCompleted" -> 6
      [] s = "ImportFailedAndCleaned" -> 7

\* ImportState::from_i32
ImportStateFromI32(n) ==
    IF \E s \in ImportStates : ImportStateCode(s) = n
    THEN Some(CHOOSE s \in ImportStates : ImportStateCode(s) = n)
    ELSE None

\* What a call returns that converts the response with conv once the status
\* is checked: conv gives Ret(value) or a panic.
CheckedThen(reply, conv) ==
    IF reply.tag = "TransportError" THEN Err(Grpc(reply.status))
    ELSE LET checked == status_to_result(reply.response.status)
         IN  IF checked.tag # "Ok" THEN checked
             ELSE IF conv.tag = "Panic" THEN conv ELSE Ok(conv.val)

\* The CollectionMetadata built from a response.
CollectionMetadataOf(response) ==
    LET schema == IF response.schema.some
                  THEN CollectionSchemaFromProto(response.schema.val)
                  ELSE Ret(Unit)
        level == ConsistencyLevelFromI32(response.consistency_level)
    IN  IF schema.tag = "Panic" THEN schema
        ELSE IF ~level.some THEN UnwrapNone
        ELSE Ret([name |-> response.collection_name,
                  id |-> response.collection_id,
                  schema |-> IF response.schema.some THEN Some(schema.val) ELSE None,
                  created_timestamp |-> response.created_timestamp,
                  created_utc_timestamp |-> response.created_utc_timestamp,
                  shards_num |-> response.shards_num,
                  aliases |-> response.aliases,
                  consistency_level |-> level.val])

\* Client::describe_collection
describe_collection(self, collection_name, time_stamp, reply) ==
    LET request == [base |-> Some(new_msg("DescribeCollection")),
                    collection_name |-> collection_name,
                    time_stamp |-> IF time_stamp.some THEN time_stamp.val ELSE 0]
        req == Intercepted(self, "DescribeCollection", request)
    IN  IF req.tag = "Panic" THEN [ret |-> req, sent |-> <<>>]
        ELSE [ret |-> IF reply.tag = "TransportError" THEN Err(Grpc(reply.status))
                      ELSE CheckedThen(reply, CollectionMetadataOf(reply.response)),
              sent |-> <<req.val>>]

\* The segment infos of a response, each with its state decoded; persistent
\* tells which of the two calls builds them.
SegmentInfosOf(infos, persistent) ==
    LET states == [i \in 1..Len(infos) |-> SegmentStateFromI32(infos[i].state)]
    IN  IF \E i \in 1..Len(infos) : ~states[i].some THEN UnwrapNone
        ELSE Ret([i \in 1..Len(infos) |->
                    IF persistent
                    THEN [segment_id |-> infos[i].segment_id,
                          collection_id |-> infos[i].collection_id,
                          partition_id |-> infos[i].partition_id,
                          num_rows |-> infos[i].num_rows,
                          state |-> states[i].val]
                    ELSE [segment_id |-> infos[i].segment_id,
                          collection_id |-> infos[i].collection_id,
                          partition_id |-> infos[i].partition_id,
                          mem_size |-> infos[i].mem_size,
                          num_rows |-> infos[i].num_rows,
                          index_name |-> infos[i].index_name,
                          index_id |-> infos[i].index_id,
                          node_id |-> infos[i].node_id,
                          state |-> states[i].val,
                          node_ids |-> infos[i].node_ids]])

\* Client::get_persistent_segment_info
get_persistent_segment_info(self, db_name, collection_name, reply) ==
    LET request == [base |-> Some(new_msg("ShowSegments")),
                    db_name |-> db_name,
                    collection_name |-> collection_name]
        req == Intercepted(self, "GetPersistentSegmentInfo", request)
    IN  IF req.tag = "Panic" THEN [ret |-> req, sent |-> <<>>]
        ELSE [ret |-> IF reply.tag = "TransportError" THEN Err(Grpc(reply.status))
                      ELSE CheckedThen(reply, SegmentInfosOf(reply.response.infos, TRUE)),
              sent |-> <<req.val>>]

\* Client::get_query_segment_info
get_query_segment_info(self, db_name, collection_name, reply) ==
    LET request == [base |-> Some(new_msg("SegmentInfo")),
                    db_name |-> db_name,
                    collection_name |-> collection_name]
        req == Intercepted(self, "GetQuerySegmentInfo", request)
    IN  IF req.tag = "Panic" THEN [ret |-> req, sent |-> <<>>]
        ELSE [ret |-> IF reply.tag = "TransportError" THEN Err(Grpc(reply.status))
                      ELSE CheckedThen(reply, SegmentInfosOf(reply.response.infos, FALSE)),
              sent |-> <<req.val>>]

\* The CompactionStateResult built from a response.
CompactionStateResultOf(response) ==
    LET state == CompactionStateFromI32(response.state)
    IN  IF ~state.some THEN UnwrapNone
        ELSE Ret([state |-> state.val,
                  executing_plan_no |-> response.executing_plan_no,
                  timeout_plan_no |-> response.timeout_plan_no,
                  completed_plan_no |-> response.completed_plan_no,
                  failed_plan_no |-> response.failed_plan_no])

\* Client::get_compaction_state
get_compaction_state(self, compaction_id, reply) ==
    LET request == [compaction_id |-> compaction_id]
        req == Intercepted(self, "GetCompactionState", request)
    IN  IF req.tag = "Panic" THEN [ret |-> req, sent |-> <<>>]
        ELSE [ret |-> IF reply.tag = "TransportError" THEN Err(Grpc(reply.status))
                      ELSE CheckedThen(reply, CompactionStateResultOf(reply.response)),
              sent |-> <<req.val>>]

\* The ImportStateResult built from a response; infos becomes a map, kept
\* here as the set of its pairs.
ImportStateResultOf(response) ==
    LET state == ImportStateFromI32(response.state)
    IN  IF ~state.some THEN UnwrapNone
        ELSE Ret([state |-> state.val,
                  row_count |-> response.row_count,
                  id_list |-> response.id_list,
                  infos |-> {response.infos[i] : i \in 1..Len(response.infos)},
                  id |-> response.id,
                  collection_id |-> response.collection_id,
                  segment_ids |-> response.segment_ids,
                  create_ts |-> response.create_ts])

\* A get_import_state that builds its result before it looks at the status.
get_import_stateDecodeFirst(self, task_id, reply) ==
    LET request == [task |-> task_id]
        req == Intercepted(self, "GetImportState", request)
    IN  IF req.tag = "Panic" THEN [ret |-> req, sent |-> <<>>]
        ELSE [ret |-> IF reply.tag = "TransportError" THEN Err(Grpc(reply.status))
                      ELSE IF ImportStateResultOf(reply.response).tag = "Panic"
                      THEN ImportStateResultOf(reply.response)
                      ELSE CheckedThen(reply, ImportStateResultOf(reply.response)),
              sent |-> <<req.val>>]

\* Client::get_import_state
get_import_state(self, task_id, reply) ==
    LET request == [task |-> task_id]
        req == Intercepted(self, "GetImportState", request)
    IN  IF req.tag = "Panic" THEN [ret |-> req, sent |-> <<>>]
        ELSE [ret |-> IF reply.tag = "TransportError" THEN Err(Grpc(reply.status))
                      ELSE CheckedThen(reply, ImportStateResultOf(reply.response)),
              sent |-> <<req.val>>]

(***************************************************************************)
(* show_collections and show_partitions (client.rs, my_client.rs).         *)
(***************************************************************************)
\* vec[i] for an index past the end
IndexOutOfBounds == Panic("index out of bounds")

\* for i in 0..n { push(entry) } where the entry of i indexes at i each of
\* the arrays, whose lengths are lens: the first index that one of them lacks
\* panics; entries are the n entries when no array is short.
CollectIndexed(n, lens, entries) ==
    IF \E i \in 1..n : \E len \in lens : len < i
    THEN IndexOutOfBounds
    ELSE Ret(entries)

\* Client::show_collections of client.rs
show_collections(self, collection_names, reply) ==
    LET request == [base |-> Some(new_msg("ShowCollections")),
                    collection_names |-> collection_names]
        req == Intercepted(self, "ShowCollections", request)
        w == reply.response
        entries == [i \in 1..Len(w.collection_names) |->
                    [name |-> w.collection_names[i],
                     id |-> w.collection_ids[i],
                     created_timestamp |-> w.created_timestamps[i],
                     created_utc_timestamp |-> w.created_utc_timestamps[i]]]
    IN  IF req.tag = "Panic" THEN [ret |-> req, sent |-> <<>>]
        ELSE [ret |-> IF reply.tag = "TransportError" THEN Err(Grpc(reply.status))
                      ELSE CheckedThen(reply,
                                CollectIndexed(Len(w.collection_names),
                                               {Len(w.collection_ids),
                                                Len(w.created_timestamps),
                                                Len(w.created_utc_timestamps)},
                                               entries)),
              sent |-> <<req.val>>]

\* Client::show_collections of my_client.rs (it also prints each name)
my_client_show_collections(self, reply) ==
    LET request == [base |-> Some(new_msg("ShowCollections")),
                    collection_names |-> <<>>]
        req == Intercepted(self, "ShowCollections", request)
        w == reply.response
        entries == [i \in 1..Len(w.collection_names) |->
                    [name |-> w.collection_names[i],
                     id |-> w.collection_ids[i],
                     created_timestamp |-> w.created_timestamps[i],
                     created_utc_timestamp |-> w.created_utc_timestamps[i],
                     in_memory_percentage |-> w.in_memory_percentages[i],
                     query_service_available |-> w.query_service_available[i]]]
    IN  IF req.tag = "Panic" THEN [ret |-> req, sent |-> <<>>]
        ELSE [ret |-> IF reply.tag = "TransportError" THEN Err(Grpc(reply.status))
                      ELSE CheckedThen(reply,
                                CollectIndexed(Len(w.collection_names),
                                               {Len(w.collection_ids),
                                                Len(w.created_timestamps),
                                                Len(w.created_utc_timestamps),
                                                Len(w.in_memory_percentages),
                                                Len(w.query_service_available)},
                                               entries)),
              sent |-> <<req.val>>]

ShowTypes == {"All", "InMemory"}

\* ty as i32
ShowTypeCode(ty) ==
    CASE ty = "All" -> 0
      [] ty = "InMemory" -> 1

\* Client::show_partitions
show_partitions(self, db_name, collection_name, collection_id, partition_names, ty, reply) ==
    LET request == [base |-> Some(new_msg("ShowPartitions")),
                    db_name |-> db_name,
                    collection_name |-> collection_name,
                    collection_id |-> collection_id,
                    partition_names |-> IF partition_names.some
                                        THEN partition_names.val ELSE <<>>,
                    type |-> ShowTypeCode(ty)]
        req == Intercepted(self, "ShowPartitions", request)
        w == reply.response
        entries == [i \in 1..Len(w.partition_names) |->
                    [name |-> w.partition_names[i],
                     id |-> w.partition_i_ds[i],
                     created_timestamp |-> w.created_timestamps[i],
                     created_utc_timestamp |-> w.created_utc_timestamps[i],
                     in_memory_percentage |-> w.in_memory_percentages[i]]]
    IN  IF req.tag = "Panic" THEN [ret |-> req, sent |-> <<>>]
        ELSE [ret |-> IF reply.tag = "TransportError" THEN Err(Grpc(reply.status))
                      ELSE CheckedThen(reply,
                                CollectIndexed(Len(w.partition_names),
                                               {Len(w.partition_i_ds),
                                                Len(w.created_timestamps),
                                                Len(w.created_utc_timestamps),
                                                Len(w.in_memory_percentages)},
                                               entries)),
              sent |-> <<req.val>>]

(***************************************************************************)
(* The inputs the operations are applied to.                               *)
(***************************************************************************)
Descriptions == {None, Some("d")}

\* The fields of the lists handed to CollectionSchema::new: primary keys of
\* both types, fields that share a name, a field without a name, vector
\* fields of dimension 1536, 0 and -8, a VarChar field of max_length 0, and
\* an Int64 field with the auto-id flag and without the primary-key flag.
FieldPool ==
    {FieldSchema_new("id", FtInt64(TRUE, TRUE), None),
     FieldSchema_new("id", FtInt64(FALSE, FALSE), Some("d")),
     FieldSchema_new("name", FtVarChar(200, TRUE, FALSE), None),
     FieldSchema_new("", FtPlain("Bool"), None),
     FieldSchema_new("vec", FtVector("FloatVector", 1536), Some("d")),
     FieldSchema_new("vec", FtVector("BinaryVector", 0), None),
     FieldSchema_new("name", FtVarChar(0, FALSE, FALSE), None),
     FieldSchema_new("n", FtInt64(FALSE, TRUE), None),
     FieldSchema_new("v", FtVector("FloatVector", 0 - 8), None)}

CollectionNames == {"c1"}

\* Arguments of create_collection.
ShardNums == {None, Some(4)}
Levels == {None, Some("Strong")}
Properties == {None, Some({[key |-> "k", value |-> "v"]})}

\* What the transport returns for a request.
ReplyCodes == {0, 1, 4, 7}
Reasons == {"", "boom"}
Replies ==
    {[tag |-> "TransportError", status |-> [message |-> "unavailable"]]}
    \cup {[tag |-> "Response", status |-> [error_code |-> c, reason |-> r]] :
            c \in ReplyCodes, r \in Reasons}

\* Statuses handed to status_to_result.
StatusCodes == {0, 1, 4, 2, 0 - 1, 65535}
Statuses ==
    {None} \cup {Some([error_code |-> c, reason |-> r]) :
                    c \in StatusCodes, r \in Reasons}

\* Wire type tags: the twelve codes and some that are no code.
KnownTypeTags == {DataTypeCode(dt) : dt \in DataTypes}
UnknownTypeTags == {0 - 1, 6, 22, 102}
TypeTags == KnownTypeTags \cup UnknownTypeTags

\* Wire fields.
TypeParams ==
    {<<>>,
     <<[key |-> "max_length", value |-> to_string(200)]>>,
     <<[key |-> "dim", value |-> to_string(1536)]>>,
     <<[key |-> "dim", value |-> <<"x">>]>>,
     <<[key |-> "dim", value |-> <<>>]>>,
     <<[key |-> "dim", value |-> to_string(0 - 8)],
       [key |-> "dim", value |-> to_string(8)],
       [key |-> "max_length", value |-> <<"+", "7">>]>>}

WireFieldSchemas ==
    {[field_id |-> 100, name |-> "f", is_primary_key |-> pk, description |-> "",
      data_type |-> t, type_params |-> tp, index_params |-> <<>>, auto_id |-> au,
      state |-> 0] :
        pk \in BOOLEAN, au \in BOOLEAN, t \in TypeTags, tp \in TypeParams}

\* Column payloads.  The conversions move the elements and never compute
\* with them, so an element is a token: the text of its value.
BoolElems == {"true", "false"}
IntElems == {"-1", "7"}
LongElems == {"0", "9"}
FloatElems == {"1.5", "NaN"}
DoubleElems == {"0.25", "-0.0"}
StringElems == {"", "a"}
BytesElems == {"b[]", "b[ff]"}
U8Elems == {"0x00", "0xff"}

ScalarFieldDatas ==
    {[variant |-> "BoolData", v |-> x] : x \in SeqUpTo(BoolElems, MaxLen)}
    \cup {[variant |-> "IntData", v |-> x] : x \in SeqUpTo(IntElems, MaxLen)}
    \cup {[variant |-> "LongData", v |-> x] : x \in SeqUpTo(LongElems, MaxLen)}
    \cup {[variant |-> "FloatData", v |-> x] : x \in SeqUpTo(FloatElems, MaxLen)}
    \cup {[variant |-> "DoubleData", v |-> x] : x \in SeqUpTo(DoubleElems, MaxLen)}
    \cup {[variant |-> "StringData", v |-> x] : x \in SeqUpTo(StringElems, MaxLen)}
    \cup {[variant |-> "BytesData", v |-> x] : x \in SeqUpTo(BytesElems, MaxLen)}

ScalarFields == {[data |-> None]} \cup {[data |-> Some(d)] : d \in ScalarFieldDatas}

\* Buffers long enough for the dimension 128.
LongLens == {128, 130, 256}

VectorFieldDatas ==
    {[variant |-> "BinaryVec", v |-> x] :
        x \in SeqUpTo(U8Elems, MaxLen) \cup {Fill("0x00", n) : n \in LongLens}}
    \cup {[variant |-> "FloatVec", v |-> x] :
        x \in SeqUpTo(FloatElems, MaxLen) \cup {Fill("1.5", n) : n \in LongLens}}

VectorDims == {0 - 1, 0, 1, 2, 3, 128}

VectorFields ==
    {[dim |-> d, data |-> None] : d \in VectorDims}
    \cup {VectorField_new(d, x) : d \in VectorDims, x \in VectorFieldDatas}

Fields ==
    {[variant |-> "Scalars", f |-> f] : f \in ScalarFields}
    \cup {[variant |-> "Vectors", f |-> f] : f \in VectorFields}

FieldDatas ==
    {FieldData_new("col", dt, f) : dt \in DataTypes, f \in {None} \cup {Some(x) : x \in Fields}}

WireFields == {FieldIntoProto(f) : f \in Fields}

WireFieldDatas ==
    {[type |-> t, field_name |-> "col", field_id |-> id, field |-> f] :
        t \in TypeTags, id \in {0, 101},
        f \in {None} \cup {Some(x) : x \in WireFields}}

\* Longest list of columns in a response, and of requested output fields.
MaxCols == 2

\* What the channel returns for a drop_collection request.
StatusReplies ==
    {[tag |-> "TransportError", status |-> [message |-> "unavailable"]]}
    \cup {[tag |-> "Response", status |-> [error_code |-> c, reason |-> r]] :
            c \in ReplyCodes, r \in Reasons}

\* The status of a response message: absent, Success, a server error, a code
\* outside the enumeration.
ResponseStatuses ==
    {None, Some([error_code |-> 0, reason |-> ""]),
     Some([error_code |-> 1, reason |-> "boom"]),
     Some([error_code |-> 7, reason |-> "boom"])}

TransportErrors == {[tag |-> "TransportError", status |-> [message |-> "unavailable"]]}

BoolReplies ==
    TransportErrors
    \cup {[tag |-> "Response", response |-> [status |-> st, value |-> v]] :
            st \in ResponseStatuses, v \in BOOLEAN}

TimeStamps == {None, Some(5)}

\* Columns of a response: a 64-bit column, a float vector column, a column
\* without payload that has the first one's name, and one whose type tag is no
\* code.
WireColumns ==
    {[type |-> 5, field_name |-> "id", field_id |-> 100,
      field |-> Some(FieldIntoProto(
                    [variant |-> "Scalars",
                     f |-> [data |-> Some([variant |-> "LongData", v |-> <<"0", "9">>])]]))],
     [type |-> 101, field_name |-> "vec", field_id |-> 101,
      field |-> Some(FieldIntoProto(
                    [variant |-> "Vectors",
                     f |-> VectorField_new(2, [variant |-> "FloatVec",
                                               v |-> <<"1.5", "NaN">>])]))],
     [type |-> 21, field_name |-> "id", field_id |-> 102, field |-> None],
     [type |-> 6, field_name |-> "bad", field_id |-> 103, field |-> None]}

OutputFieldNames == {"id", "vec"}
ParamMaps == {{}, {[key |-> "k", value |-> "v"]}}

QueryReplies ==
    TransportErrors
    \cup {[tag |-> "Response",
           response |-> [status |-> st, fields_data |-> cols, collection_name |-> "c1"]] :
            st \in ResponseStatuses, cols \in SeqUpTo(WireColumns, MaxCols)}

\* Search responses: the flat score array and the per-query counts are
\* chosen independently of each other.
SearchColumns == {w \in WireColumns : w.field_id \in {100, 103}}
SearchScores == SeqUpTo({"0.5", "NaN"}, MaxLen)
SearchTopks == {<<>>, <<1>>, <<1, 2>>}
SearchIds ==
    {None, Some([id_field |-> None]),
     Some([id_field |-> Some([variant |-> "IntId", arr |-> [data |-> <<"7", "8">>]])]),
     Some([id_field |-> Some([variant |-> "StrId", arr |-> [data |-> <<"a">>]])])}

WireSearchResultDatas ==
    {[num_queries |-> 3, top_k |-> 2, fields_data |-> cols, scores |-> sc,
      ids |-> ids, topks |-> tk] :
        cols \in SeqUpTo(SearchColumns, MaxCols), sc \in SearchScores,
        ids \in SearchIds, tk \in SearchTopks}

SearchReplies ==
    TransportErrors
    \cup {[tag |-> "Response",
           response |-> [status |-> st, results |-> res, collection_name |-> "c1"]] :
            st \in ResponseStatuses,
            res \in {None} \cup {Some(d) : d \in WireSearchResultDatas}}

\* Columns handed to insert: two rows of 64-bit values, one string declared
\* VarChar, and a scalar column declared FloatVector.
InsertColumns ==
    {FieldData_new("id", "Int64",
        Some([variant |-> "Scalars",
              f |-> [data |-> Some([variant |-> "LongData", v |-> <<"0", "9">>])]])),
     FieldData_new("txt", "VarChar",
        Some([variant |-> "Scalars",
              f |-> [data |-> Some([variant |-> "StringData", v |-> <<"a">>])]])),
     FieldData_new("vec", "FloatVector",
        Some([variant |-> "Scalars",
              f |-> [data |-> Some([variant |-> "FloatData",
                                    v |-> <<"1.5", "NaN", "1.5">>])]]))}

\* The same columns as my_collection.rs holds them, the type as a number.
MyInsertColumns ==
    {[data_type |-> DataTypeCode(c.data_type), field_name |-> c.field_name,
      field_id |-> c.field_id, field |-> c.field] : c \in InsertColumns}

NumRowsArgs == {0, 2}

\* Responses to insert and delete: the counts agree with the index lists in
\* the first and disagree in the second.
MutationCounts ==
    {[succ_index |-> <<0, 1>>, err_index |-> <<>>, acknowledged |-> TRUE,
      insert_cnt |-> 2, delete_cnt |-> 0, upsert_cnt |-> 0, timestamp |-> 9],
     [succ_index |-> <<0>>, err_index |-> <<5>>, acknowledged |-> FALSE,
      insert_cnt |-> 7, delete_cnt |-> 3, upsert_cnt |-> 1, timestamp |-> 0]}

MutationReplies ==
    TransportErrors
    \cup {[tag |-> "Response",
           response |-> [status |-> st, i_ds |-> ids, succ_index |-> c.succ_index,
                         err_index |-> c.err_index, acknowledged |-> c.acknowledged,
                         insert_cnt |-> c.insert_cnt, delete_cnt |-> c.delete_cnt,
                         upsert_cnt |-> c.upsert_cnt, timestamp |-> c.timestamp]] :
            st \in ResponseStatuses, ids \in SearchIds, c \in MutationCounts}

\* Columns whose row count is asked: every payload, under one declared type.
NumRowsColumns ==
    {FieldData_new("col", "Int64", f) : f \in {None} \cup {Some(x) : x \in Fields}}

\* Columns whose type is asked: every declared type over no payload, a string
\* payload, a payload of 64-bit values and a vector payload.
DtypeColumns ==
    {FieldData_new("col", dt, f) :
        dt \in DataTypes,
        f \in {None,
               Some([variant |-> "Scalars",
                     f |-> [data |-> Some([variant |-> "StringData", v |-> <<"a">>])]]),
               Some([variant |-> "Scalars",
                     f |-> [data |-> Some([variant |-> "LongData", v |-> <<"0">>])]]),
               Some([variant |-> "Vectors",
                     f |-> VectorField_new(2, [variant |-> "FloatVec",
                                               v |-> <<"1.5", "1.5">>])])}}

\* Schemas of a describe_collection response: none, one 64-bit key field,
\* one field of an unknown type.
DescribeSchemas ==
    {None} \cup
    {Some([name |-> "c1", description |-> "", auto_id |-> FALSE,
           fields |-> <<[field_id |-> 100, name |-> "id", is_primary_key |-> TRUE,
                         description |-> "", data_type |-> t, type_params |-> <<>>,
                         index_params |-> <<>>, auto_id |-> FALSE, state |-> 0]>>]) :
        t \in {5, 6}}

\* Consistency level codes of a response: Bounded, and one outside the
\* enumeration.
LevelCodes == {2, 5}

DescribeReplies ==
    TransportErrors
    \cup {[tag |-> "Response",
           response |-> [status |-> st, schema |-> s, collection_id |-> 7,
                         virtual_channel_names |-> <<>>,
                         physical_channel_names |-> <<>>,
                         created_timestamp |-> 9, created_utc_timestamp |-> 1,
                         shards_num |-> 2, aliases |-> <<>>, start_positions |-> <<>>,
                         consistency_level |-> l, collection_name |-> "c1"]] :
            st \in ResponseStatuses, s \in DescribeSchemas, l \in LevelCodes}

\* Segment state codes: Flushed, and one outside the enumeration.
SegmentStateCodes == {4, 8}

SegmentInfoLists ==
    {<<>>}
    \cup {<<[segment_id |-> 1, collection_id |-> 7, partition_id |-> 3,
             mem_size |-> 64, num_rows |-> 2, index_name |-> "", index_id |-> 0,
             node_id |-> 1, state |-> c, node_ids |-> <<1>>]>> :
            c \in SegmentStateCodes}

SegmentInfoReplies ==
    TransportErrors
    \cup {[tag |-> "Response", response |-> [status |-> st, infos |-> infos]] :
            st \in ResponseStatuses, infos \in SegmentInfoLists}

\* Compaction state codes: Completed, and one outside the enumeration.
CompactionStateCodes == {2, 3}

CompactionStateReplies ==
    TransportErrors
    \cup {[tag |-> "Response",
           response |-> [status |-> st, state |-> c, executing_plan_no |-> 1,
                         timeout_plan_no |-> 0, completed_plan_no |-> 2,
                         failed_plan_no |-> 0]] :
            st \in ResponseStatuses, c \in CompactionStateCodes}

\* Import state codes: ImportPersisted, and the two between ImportStarted
\* and ImportPersisted that the enumeration leaves out.
ImportStateCodes == {5, 3, 4}

ImportStateReplies ==
    TransportErrors
    \cup {[tag |-> "Response",
           response |-> [status |-> st, state |-> c, row_count |-> 2,
                         id_list |-> <<0, 1>>,
                         infos |-> <<[key |-> "files", value |-> "a.json"]>>,
                         id |-> 11, collection_id |-> 7, segment_ids |-> <<1>>,
                         create_ts |-> 9]] :
            st \in ResponseStatuses, c \in ImportStateCodes}

\* The parallel arrays of a show response: complete for two names, empty,
\* and with one of the arrays one element short.
ShowArrays ==
    LET full == [names |-> <<"b", "a">>, ids |-> <<7, 8>>, created |-> <<9, 4>>,
                 utc |-> <<1, 2>>, percentages |-> <<100, 50>>,
                 available |-> <<TRUE, FALSE>>]
    IN  {full,
         [names |-> <<>>, ids |-> <<>>, created |-> <<>>, utc |-> <<>>,
          percentages |-> <<>>, available |-> <<>>],
         [full EXCEPT !.ids = <<7>>],
         [full EXCEPT !.utc = <<>>],
         [full EXCEPT !.percentages = <<100>>],
         [full EXCEPT !.available = <<TRUE>>]}

ShowCollectionsReplies ==
    TransportErrors
    \cup {[tag |-> "Response",
           response |-> [status |-> st, collection_names |-> a.names,
                         collection_ids |-> a.ids, created_timestamps |-> a.created,
                         created_utc_timestamps |-> a.utc,
                         in_memory_percentages |-> a.percentages,
                         query_service_available |-> a.available]] :
            st \in ResponseStatuses, a \in ShowArrays}

ShowPartitionsReplies ==
    TransportErrors
    \cup {[tag |-> "Response",
           response |-> [status |-> st, partition_names |-> a.names,
                         partition_i_ds |-> a.ids, created_timestamps |-> a.created,
                         created_utc_timestamps |-> a.utc,
                         in_memory_percentages |-> a.percentages]] :
            st \in ResponseStatuses, a \in ShowArrays}

PartitionNameArgs == {None, Some(<<"p1">>)}

(***************************************************************************)
(* The state machine: each action is one operation of the library.  The    *)
(* operations are pure, so a run applies one of them to an input of its    *)
(* choice; create_collection follows the construction of its schema.       *)
(***************************************************************************)
Init ==
    /\ op = "start"
    /\ arg = Unit
    /\ ret = Ret(Unit)
    /\ sent = <<>>
    /\ client = None

\* CollectionSchema::new(name, fields, description)
NewCollectionSchema ==
    /\ op \in {"start", "Client::new"}
    /\ UNCHANGED client
    /\ \E name \in CollectionNames, fields \in SeqUpTo(FieldPool, MaxFields),
          description \in Descriptions :
        /\ op' = "CollectionSchema::new"
        /\ arg' = [name |-> name, fields |-> fields, description |-> description]
        /\ ret' = CollectionSchema_new(name, fields, description)
        /\ sent' = <<>>

\* The credentials, timeouts and outcomes of Client::new.
Hosts == {"localhost"}
Ports == {19530}
Usernames == {None, Some(<<"r", "o", "o", "t">>)}
Passwords == {None, Some(<<"M", "i", "l", "v", "u", "s">>), Some(<<>>)}
Timeouts == {None, Some(3)}
ConnectOutcomes == {"connected", "invalid_url", "connect_failed"}

\* Client::new(host, port, username, password, timeout).await
NewClient ==
    /\ op = "start"
    /\ ~client.some
    /\ \E host \in Hosts, port \in Ports, username \in Usernames,
          password \in Passwords, timeout \in Timeouts, outcome \in ConnectOutcomes :
        LET r == Client_new(host, port, username, password, timeout, outcome)
        IN  /\ op' = "Client::new"
            /\ arg' = [host |-> host, port |-> port, username |-> username,
                       password |-> password, timeout |-> timeout]
            /\ ret' = r
            /\ sent' = <<>>
            /\ client' = IF r.tag = "Ok" THEN Some(r.val) ELSE None

\* Client::create_collection with the schema CollectionSchema::new returned.
CreateCollection ==
    /\ op = "CollectionSchema::new"
    /\ ret.tag = "Ok"
    /\ client.some
    /\ UNCHANGED client
    /\ \E collection_name \in CollectionNames, shards_num \in ShardNums,
          level \in Levels, properties \in Properties, reply \in Replies :
        \E props \in Orderings(IF properties.some THEN properties.val ELSE {}) :
            LET out == create_collection(client.val, collection_name, ret.val,
                                         shards_num, level, props, reply)
            IN  /\ op' = "create_collection"
                /\ arg' = [collection_name |-> collection_name, schema |-> ret.val,
                           shards_num |-> shards_num, level |-> level,
                           properties |-> properties]
                /\ ret' = out.ret
                /\ sent' = out.sent

\* FieldSchema::from(wire field)
ConvertWireFieldSchema ==
    /\ op = "start"
    /\ UNCHANGED client
    /\ \E w \in WireFieldSchemas :
        /\ op' = "FieldSchema::from"
        /\ arg' = w
        /\ ret' = FieldSchemaFromProto(w)
        /\ sent' = <<>>

\* VectorField::num_rows
VectorNumRows ==
    /\ op = "start"
    /\ UNCHANGED client
    /\ \E f \in VectorFields :
        /\ op' = "VectorField::num_rows"
        /\ arg' = f
        /\ ret' = VectorField_num_rows(f)
        /\ sent' = <<>>

\* proto FieldData::from(FieldData)
ConvertFieldData ==
    /\ op = "start"
    /\ UNCHANGED client
    /\ \E fd \in FieldDatas :
        /\ op' = "proto::FieldData::from"
        /\ arg' = fd
        /\ ret' = Ret(FieldDataIntoProto(fd))
        /\ sent' = <<>>

\* FieldData::from(wire FieldData)
ConvertWireFieldData ==
    /\ op = "start"
    /\ UNCHANGED client
    /\ \E w \in WireFieldDatas :
        /\ op' = "FieldData::from"
        /\ arg' = w
        /\ ret' = FieldDataFromProto(w)
        /\ sent' = <<>>

\* status_to_result(&status)
StatusToResult ==
    /\ op = "start"
    /\ UNCHANGED client
    /\ \E status \in Statuses :
        /\ op' = "status_to_result"
        /\ arg' = status
        /\ ret' = status_to_result(status)
        /\ sent' = <<>>

\* ScalarField::dtype
ScalarDtype ==
    /\ op = "start"
    /\ UNCHANGED client
    /\ \E f \in ScalarFields :
        /\ op' = "ScalarField::dtype"
        /\ arg' = f
        /\ ret' = Ret(ScalarField_dtype(f))
        /\ sent' = <<>>

\* VectorField::dtype
VectorDtype ==
    /\ op = "start"
    /\ UNCHANGED client
    /\ \E f \in VectorFields :
        /\ op' = "VectorField::dtype"
        /\ arg' = f
        /\ ret' = Ret(VectorField_dtype(f))
        /\ sent' = <<>>

\* client.drop_collection(collection_name).await
DropCollection ==
    /\ op = "Client::new"
    /\ client.some
    /\ UNCHANGED client
    /\ \E collection_name \in CollectionNames, reply \in StatusReplies :
        LET out == drop_collection(client.val, collection_name, reply)
        IN  /\ op' = "drop_collection"
            /\ arg' = [collection_name |-> collection_name, reply |-> reply]
            /\ ret' = out.ret
            /\ sent' = out.sent

\* client.has_collection(collection_name, time_stamp).await
HasCollection ==
    /\ op = "Client::new"
    /\ client.some
    /\ UNCHANGED client
    /\ \E collection_name \in CollectionNames, time_stamp \in TimeStamps,
          reply \in BoolReplies :
        LET out == has_collection(client.val, collection_name, time_stamp, reply)
        IN  /\ op' = "has_collection"
            /\ arg' = [collection_name |-> collection_name,
                       time_stamp |-> time_stamp, reply |-> reply]
            /\ ret' = out.ret
            /\ sent' = out.sent

\* client.query(..).await
Query ==
    /\ op = "Client::new"
    /\ client.some
    /\ UNCHANGED client
    /\ \E collection_name \in CollectionNames,
          output_fields \in SeqUpTo(OutputFieldNames, MaxCols),
          params \in ParamMaps, reply \in QueryReplies :
        \E query_params \in Orderings(params) :
            LET out == query(client.val, "", collection_name, "id > 0", output_fields,
                             <<>>, 0, 0, query_params, reply)
            IN  /\ op' = "query"
                /\ arg' = [collection_name |-> collection_name,
                           output_fields |-> output_fields,
                           query_params |-> params, reply |-> reply]
                /\ ret' = out.ret
                /\ sent' = out.sent

\* client.search(..).await
Search ==
    /\ op = "Client::new"
    /\ client.some
    /\ UNCHANGED client
    /\ \E collection_name \in CollectionNames, reply \in SearchReplies :
        LET out == search(client.val, "", collection_name, <<>>, "dsl", <<>>,
                          "BoolExprV1", <<"id">>, <<>>, 0, 0, 3, reply)
        IN  /\ op' = "search"
            /\ arg' = [collection_name |-> collection_name, reply |-> reply]
            /\ ret' = out.ret
            /\ sent' = out.sent

\* client.insert(..).await
Insert ==
    /\ op = "Client::new"
    /\ client.some
    /\ UNCHANGED client
    /\ \E collection_name \in CollectionNames,
          fields_data \in SeqUpTo(InsertColumns, MaxCols),
          num_rows \in NumRowsArgs, reply \in MutationReplies :
        LET out == insert(client.val, "", collection_name, "", fields_data, <<>>,
                          num_rows, reply)
        IN  /\ op' = "insert"
            /\ arg' = [collection_name |-> collection_name, fields_data |-> fields_data,
                       num_rows |-> num_rows, reply |-> reply]
            /\ ret' = out.ret
            /\ sent' = out.sent

\* client.delete(..).await
Delete ==
    /\ op = "Client::new"
    /\ client.some
    /\ UNCHANGED client
    /\ \E collection_name \in CollectionNames, reply \in MutationReplies :
        LET out == delete(client.val, "", collection_name, "", "id > 0", <<>>, reply)
        IN  /\ op' = "delete"
            /\ arg' = [collection_name |-> collection_name, reply |-> reply]
            /\ ret' = out.ret
            /\ sent' = out.sent

\* insert of my_client.rs, on a client built by its Client::new (which is
\* the constructor of client.rs, line for line).
MyClientInsert ==
    /\ op = "Client::new"
    /\ client.some
    /\ UNCHANGED client
    /\ \E collection_name \in CollectionNames,
          fields_data \in SeqUpTo(MyInsertColumns, MaxCols),
          reply \in {r \in MutationReplies :
                        r.tag = "Response" => r.response.i_ds = None} :
        LET out == my_client_insert(client.val, collection_name, "", fields_data, reply)
        IN  /\ op' = "my_client::insert"
            /\ arg' = [collection_name |-> collection_name, fields_data |-> fields_data,
                       reply |-> reply]
            /\ ret' = out.ret
            /\ sent' = out.sent

\* field.num_rows() of a ScalarField
ScalarNumRows ==
    /\ op = "start"
    /\ UNCHANGED client
    /\ \E f \in ScalarFields :
        /\ op' = "ScalarField::num_rows"
        /\ arg' = f
        /\ ret' = Ret(ScalarField_num_rows(f))
        /\ sent' = <<>>

\* field_data.num_rows()
FieldDataNumRows ==
    /\ op = "start"
    /\ UNCHANGED client
    /\ \E fd \in NumRowsColumns :
        /\ op' = "FieldData::num_rows"
        /\ arg' = fd
        /\ ret' = FieldData_num_rows(fd)
        /\ sent' = <<>>

\* field_data.dtype()
FieldDataDtype ==
    /\ op = "start"
    /\ UNCHANGED client
    /\ \E fd \in DtypeColumns :
        /\ op' = "FieldData::dtype"
        /\ arg' = fd
        /\ ret' = Ret(FieldData_dtype(fd))
        /\ sent' = <<>>

\* get_gts(level).await
GetGts ==
    /\ op = "start"
    /\ UNCHANGED client
    /\ \E level \in ConsistencyLevels :
        /\ op' = "get_gts"
        /\ arg' = level
        /\ ret' = get_gts(level)
        /\ sent' = <<>>

\* client.describe_collection(..).await
DescribeCollection ==
    /\ op = "Client::new"
    /\ client.some
    /\ UNCHANGED client
    /\ \E collection_name \in CollectionNames, time_stamp \in TimeStamps,
          reply \in DescribeReplies :
        LET out == describe_collection(client.val, collection_name, time_stamp, reply)
        IN  /\ op' = "describe_collection"
            /\ arg' = [collection_name |-> collection_name,
                       time_stamp |-> time_stamp, reply |-> reply]
            /\ ret' = out.ret
            /\ sent' = out.sent

\* client.get_persistent_segment_info(..).await
GetPersistentSegmentInfo ==
    /\ op = "Client::new"
    /\ client.some
    /\ UNCHANGED client
    /\ \E collection_name \in CollectionNames, reply \in SegmentInfoReplies :
        LET out == get_persistent_segment_info(client.val, "", collection_name, reply)
        IN  /\ op' = "get_persistent_segment_info"
            /\ arg' = [collection_name |-> collection_name, reply |-> reply]
            /\ ret' = out.ret
            /\ sent' = out.sent

\* client.get_query_segment_info(..).await
GetQuerySegmentInfo ==
    /\ op = "Client::new"
    /\ client.some
    /\ UNCHANGED client
    /\ \E collection_name \in CollectionNames, reply \in SegmentInfoReplies :
        LET out == get_query_segment_info(client.val, "", collection_name, reply)
        IN  /\ op' = "get_query_segment_info"
            /\ arg' = [collection_name |-> collection_name, reply |-> reply]
            /\ ret' = out.ret
            /\ sent' = out.sent

\* client.get_compaction_state(..).await
GetCompactionState ==
    /\ op = "Client::new"
    /\ client.some
    /\ UNCHANGED client
    /\ \E reply \in CompactionStateReplies :
        LET out == get_compaction_state(client.val, 11, reply)
        IN  /\ op' = "get_compaction_state"
            /\ arg' = [compaction_id |-> 11, reply |-> reply]
            /\ ret' = out.ret
            /\ sent' = out.sent

\* client.get_import_state(..).await
GetImportState ==
    /\ op = "Client::new"
    /\ client.some
    /\ UNCHANGED client
    /\ \E reply \in ImportStateReplies :
        LET out == get_import_state(client.val, 11, reply)
        IN  /\ op' = "get_import_state"
            /\ arg' = [task_id |-> 11, reply |-> reply]
            /\ ret' = out.ret
            /\ sent' = out.sent

\* client.show_collections(..).await
ShowCollections ==
    /\ op = "Client::new"
    /\ client.some
    /\ UNCHANGED client
    /\ \E collection_names \in SeqUpTo(CollectionNames, 1),
          reply \in ShowCollectionsReplies :
        LET out == show_collections(client.val, collection_names, reply)
        IN  /\ op' = "show_collections"
            /\ arg' = [collection_names |-> collection_names, reply |-> reply]
            /\ ret' = out.ret
            /\ sent' = out.sent

\* show_collections of my_client.rs
MyClientShowCollections ==
    /\ op = "Client::new"
    /\ client.some
    /\ UNCHANGED client
    /\ \E reply \in ShowCollectionsReplies :
        LET out == my_client_show_collections(client.val, reply)
        IN  /\ op' = "my_client::show_collections"
            /\ arg' = [reply |-> reply]
            /\ ret' = out.ret
            /\ sent' = out.sent

\* client.show_partitions(..).await
ShowPartitions ==
    /\ op = "Client::new"
    /\ client.some
    /\ UNCHANGED client
    /\ \E collection_name \in CollectionNames, partition_names \in PartitionNameArgs,
          ty \in ShowTypes, reply \in ShowPartitionsReplies :
        LET out == show_partitions(client.val, "", collection_name, 7,
                                   partition_names, ty, reply)
        IN  /\ op' = "show_partitions"
            /\ arg' = [collection_name |-> collection_name,
                       partition_names |-> partition_names, ty |-> ty,
                       reply |-> reply]
            /\ ret' = out.ret
            /\ sent' = out.sent

Next ==
    \/ NewClient
    \/ NewCollectionSchema
    \/ CreateCollection
    \/ ConvertWireFieldSchema
    \/ VectorNumRows
    \/ ConvertFieldData
    \/ ConvertWireFieldData
    \/ StatusToResult
    \/ ScalarDtype
    \/ VectorDtype
    \/ DropCollection
    \/ HasCollection
    \/ Query
    \/ Search
    \/ Insert
    \/ Delete
    \/ MyClientInsert
    \/ ScalarNumRows
    \/ FieldDataNumRows
    \/ FieldDataDtype
    \/ GetGts
    \/ DescribeCollection
    \/ GetPersistentSegmentInfo
    \/ GetQuerySegmentInfo
    \/ GetCompactionState
    \/ GetImportState
    \/ ShowCollections
    \/ MyClientShowCollections
    \/ ShowPartitions

Spec == Init /\ [][Next]_vars

(***************************************************************************)
(* Properties.                                                             *)
(***************************************************************************)
\* The positions of the primary-key fields of a field list.
PrimaryIndices(fields) == {i \in 1..Len(fields) : is_primary(fields[i])}

\* The k-th smallest element of a set of numbers.
RECURSIVE KthSmallest(_, _)
KthSmallest(S, k) ==
    LET m == CHOOSE x \in S : \A y \in S : x <= y
    IN  IF k = 1 THEN m ELSE KthSmallest(S \ {m}, k - 1)

\* C1: CollectionSchema::new with two or more primary-key fields returns
\* Err(DuplicatePrimaryKey(a, b)), a and b the names of the first two
\* primary-key fields in list order, and no schema.
C1_DuplicatePrimaryKeyRejected ==
    (op = "CollectionSchema::new" /\ Cardinality(PrimaryIndices(arg.fields)) >= 2)
        => ret = Err(SchemaErr(DuplicatePrimaryKey(
                    arg.fields[KthSmallest(PrimaryIndices(arg.fields), 1)].name,
                    arg.fields[KthSmallest(PrimaryIndices(arg.fields), 2)].name)))

\* C2: CollectionSchema::new with no primary-key field (the empty list
\* included) returns Err(Error::Schema(NoPrimaryKey)) and no schema; with
\* exactly one primary-key field it returns Ok.
C2_NoPrimaryKeyRejected ==
    op = "CollectionSchema::new" =>
        /\ Cardinality(PrimaryIndices(arg.fields)) = 0
                => ret = Err(SchemaErr(NoPrimaryKey))
        /\ Cardinality(PrimaryIndices(arg.fields)) = 1 => ret.tag = "Ok"

\* A non-empty list without a primary key was rejected.
C2_Witness ==
    /\ op = "CollectionSchema::new"
    /\ Len(arg.fields) = 2
    /\ PrimaryIndices(arg.fields) = {}
    /\ ret = Err(SchemaErr(NoPrimaryKey))

\* C3: every schema CollectionSchema::new returns as Ok has exactly one
\* primary-key field, and still has when it is handed to create_collection.
C3_ExactlyOnePrimaryKey ==
    /\ (op = "CollectionSchema::new" /\ ret.tag = "Ok")
            => Cardinality(PrimaryIndices(ret.val.fields)) = 1
    /\ op = "create_collection"
            => Cardinality(PrimaryIndices(arg.schema.fields)) = 1

\* The wire field the claim C4 expects for a field (field_id left open).
C4_FieldMatches(w, f) ==
    /\ w.name = f.name
    /\ w.description = f.desc
    /\ w.data_type = DataTypeCode(f.ty.kind)
    /\ w.is_primary_key = (f.ty.kind \in {"Int64", "VarChar"} /\ f.ty.pk)
    /\ w.auto_id = (f.ty.kind \in {"Int64", "VarChar"} /\ f.ty.auto)
    /\ w.type_params =
        (CASE f.ty.kind = "VarChar" ->
                <<[key |-> "max_length", value |-> to_string(f.ty.max_length)]>>
           [] f.ty.kind \in {"BinaryVector", "FloatVector"} ->
                <<[key |-> "dim", value |-> to_string(f.ty.dim)]>>
           [] OTHER -> <<>>)

\* C4: create_collection turns a schema that CollectionSchema::new accepted
\* into exactly one request, without panicking, whose encoded schema has the
\* same name and description and the same fields in the same order.
C4_CreateCollectionEncodesSchema ==
    op = "create_collection" =>
        /\ ret.tag # "Panic"
        /\ Len(sent) = 1
        /\ LET w == sent[1].message.schema.bytes_of
           IN  /\ w.name = arg.schema.name
               /\ w.description = arg.schema.description
               /\ Len(w.fields) = Len(arg.schema.fields)
               /\ \A i \in 1..Len(w.fields) :
                    C4_FieldMatches(w.fields[i], arg.schema.fields[i])

\* C5: with data present and dimension d > 0, num_rows is the ceiling of
\* L / d: the least n with n * d >= L (d = 128: L = 256 gives 2, L = 130
\* gives 2), for the float and the binary variant.
C5_NumRowsIsCeiling ==
    (op = "VectorField::num_rows" /\ arg.data.some /\ arg.dim > 0) =>
        LET L == Len(arg.data.val.v)
        IN  /\ ret.tag = "Ret"
            /\ ret.val * arg.dim >= L
            /\ (ret.val - 1) * arg.dim < L
            /\ (arg.dim = 128 /\ L \in {256, 130}) => ret.val = 2

\* A buffer of 130 elements with dimension 128 counted as two rows.
C5_Witness ==
    /\ op = "VectorField::num_rows"
    /\ arg.data.some
    /\ arg.dim = 128
    /\ Len(arg.data.val.v) = 130
    /\ ret = Ret(2)

\* C6: VectorField::num_rows returns a row count without panicking for every
\* declared dimension (0 and negative values included) and every buffer.
C6_NumRowsTotal ==
    op = "VectorField::num_rows" => ret.tag = "Ret"

\* Two column payloads of the same variant, length and elements.
C7_SameData(a, b) ==
    /\ a.some = b.some
    /\ a.some =>
        /\ a.val.variant = b.val.variant
        /\ Len(a.val.v) = Len(b.val.v)
        /\ \A i \in 1..Len(a.val.v) : a.val.v[i] = b.val.v[i]

C7_SameField(a, b) ==
    /\ a.some = b.some
    /\ a.some =>
        /\ a.val.variant = b.val.variant
        /\ a.val.variant = "Vectors" => a.val.f.dim = b.val.f.dim
        /\ C7_SameData(a.val.f.data, b.val.f.data)

\* C7: a column converted to wire form and back has the same variant, the
\* same length and the same elements in the same order (and, for a vector
\* column, the same dim); an absent payload stays absent.
C7_RoundTrip ==
    op = "proto::FieldData::from" =>
        C7_SameField(IF ret.val.field.some
                     THEN Some(FieldFromProto(ret.val.field.val))
                     ELSE None,
                     arg.field)

\* A string column of two elements went to the wire.
C7_Witness ==
    /\ op = "proto::FieldData::from"
    /\ arg.field.some
    /\ arg.field.val.variant = "Scalars"
    /\ arg.field.val.f.data.some
    /\ arg.field.val.f.data.val.variant = "StringData"
    /\ Len(arg.field.val.f.data.val.v) = 2
    /\ ret.val.field.some

\* The type codes as the claim C8 lists them.
C8_Codes ==
    {<<"None", 0>>, <<"Bool", 1>>, <<"Int8", 2>>, <<"Int16", 3>>, <<"Int32", 4>>,
     <<"Int64", 5>>, <<"Float", 10>>, <<"Double", 11>>, <<"String", 20>>,
     <<"VarChar", 21>>, <<"BinaryVector", 100>>, <<"FloatVector", 101>>}

\* C8: a FieldData goes to the wire with the code of its declared type, and
\* a wire FieldData with one of the twelve codes decodes to the type of that
\* code, which encodes to the same code again.
C8_TypeCodes ==
    /\ op = "proto::FieldData::from"
            => <<arg.data_type, ret.val.type>> \in C8_Codes
    /\ (op = "FieldData::from" /\ \E p \in C8_Codes : p[2] = arg.type) =>
            /\ ret.tag = "Ret"
            /\ <<ret.val.data_type, arg.type>> \in C8_Codes
            /\ FieldDataIntoProto(ret.val).type = arg.type

\* A wire column tagged 101 decoded to FloatVector.
C8_Witness ==
    /\ op = "FieldData::from"
    /\ arg.type = 101
    /\ ret.tag = "Ret"
    /\ ret.val.data_type = "FloatVector"

\* C9: status_to_result never panics; it returns Ok(()) exactly for a present
\* status with the code Success; an absent status gives Unexpected("no
\* status"); a known code other than Success gives Server(code, reason) with
\* the code and reason of the response; a code outside the enumeration gives
\* Unexpected.
C9_StatusToResult ==
    op = "status_to_result" =>
        LET known == arg.some /\ ErrorCodeFromI32(arg.val.error_code).some
        IN  /\ ret.tag # "Panic"
            /\ (ret = Ok(Unit)) <=> (arg.some /\ arg.val.error_code = 0)
            /\ ~arg.some => ret = Err(Unexpected(<<"no status">>))
            /\ (known /\ arg.val.error_code # 0) =>
                    /\ ret.tag = "Err"
                    /\ ret.err.kind = "Server"
                    /\ ErrorCodeValue(ret.err.code) = arg.val.error_code
                    /\ ret.err.reason = arg.val.reason
            /\ (arg.some /\ ~known) =>
                    (ret.tag = "Err" /\ ret.err.kind = "Unexpected")

\* A response with the code 4 and a reason became a server error.
C9_Witness ==
    /\ op = "status_to_result"
    /\ arg.some
    /\ arg.val.error_code = 4
    /\ arg.val.reason = "boom"
    /\ ret = Err(Server("CollectionNotExists", "boom"))

\* C10: a wire FieldData or wire FieldSchema whose type tag is none of the
\* defined codes is answered with an error value, never with a panic.
C10_UnknownTagIsError ==
    /\ (op = "FieldData::from" /\ ~\E p \in C8_Codes : p[2] = arg.type)
            => ret.tag = "Err"
    /\ (op = "FieldSchema::from" /\ ~\E p \in C8_Codes : p[2] = arg.data_type)
            => ret.tag = "Err"

\* The DataType the claim C11 expects for each variant of a scalar column.
C11_ScalarTypes == {"Bool", "Int8", "Int16", "Int32", "Int64", "Float", "Double",
                    "String", "VarChar"}

\* C11: ScalarField::dtype of a column with data is a scalar (non-vector)
\* DataType, the one of the variant's element type where the enumeration has
\* one (bool, 32-bit int, 64-bit int, float, double, string); dtype of a
\* scalar or vector column without data is DataType::None.
C11_DtypeMatchesVariant ==
    /\ (op = "ScalarField::dtype" /\ arg.data.some) =>
            /\ ret.val \in C11_ScalarTypes
            /\ arg.data.val.variant = "BoolData" => ret.val = "Bool"
            /\ arg.data.val.variant = "IntData" => ret.val = "Int32"
            /\ arg.data.val.variant = "LongData" => ret.val = "Int64"
            /\ arg.data.val.variant = "FloatData" => ret.val = "Float"
            /\ arg.data.val.variant = "DoubleData" => ret.val = "Double"
            /\ arg.data.val.variant = "StringData" => ret.val = "String"
    /\ (op \in {"ScalarField::dtype", "VectorField::dtype"} /\ ~arg.data.some)
            => ret.val = "None"

\* The payload of a column r and the wire payload w it was built from have
\* the same kind, the same dim and the same elements in the same order.
C12_SamePayload(r, w) ==
    /\ r.some = w.some
    /\ r.some =>
        /\ r.val.variant = w.val.variant
        /\ r.val.f.data.some = w.val.f.data.some
        /\ r.val.variant = "Vectors" => r.val.f.dim = w.val.f.dim
        /\ r.val.f.data.some =>
            LET rd == r.val.f.data.val
                wd == w.val.f.data.val
            IN  CASE wd.variant = "BinaryVector" ->
                        rd.variant = "BinaryVec" /\ rd.v = wd.bytes
                  [] wd.variant = "FloatVector" ->
                        rd.variant = "FloatVec" /\ rd.v = wd.arr.data
                  [] OTHER -> rd.variant = wd.variant /\ rd.v = wd.arr.data

\* C12: the QueryResult of a query has one FieldData per column of the
\* response, in the response's order, each with the column's name, field id,
\* type and payload; when the response lists the requested output fields in
\* request order, the result's columns are the requested fields in that order.
C12_QueryResultKeepsColumns ==
    (op = "query" /\ ret.tag = "Ok") =>
        LET wire == arg.reply.response.fields_data
            res == ret.val.fields_data
        IN  /\ Len(res) = Len(wire)
            /\ \A i \in 1..Len(wire) :
                /\ res[i].field_name = wire[i].field_name
                /\ res[i].field_id = wire[i].field_id
                /\ <<res[i].data_type, wire[i].type>> \in C8_Codes
                /\ C12_SamePayload(res[i].field, wire[i].field)
            /\ [i \in 1..Len(wire) |-> wire[i].field_name] = arg.output_fields
                    => [i \in 1..Len(res) |-> res[i].field_name] = arg.output_fields

\* A query for vec and id, in this order, returned the two columns in this
\* order.
C12_Witness ==
    /\ op = "query"
    /\ ret.tag = "Ok"
    /\ arg.output_fields = <<"vec", "id">>
    /\ Len(ret.val.fields_data) = 2
    /\ ret.val.fields_data[1].field_name = "vec"
    /\ ret.val.fields_data[1].field_id = 101
    /\ ret.val.fields_data[2].field_name = "id"
    /\ ret.val.fields_data[2].field.some

\* C13: is_primary() implies the type Int64 or VarChar for a FieldSchema
\* built by FieldSchema::new or converted from a wire field (whatever the
\* wire field's primary-key flag), and CollectionSchema::new finds no
\* primary key in a list without a field of these two types.
C13_PrimaryKeyTypes ==
    /\ (op = "FieldSchema::from" /\ ret.tag = "Ret" /\ is_primary(ret.val))
            => /\ ret.val.ty.kind \in {"Int64", "VarChar"}
               /\ arg.data_type \in {5, 21}
    /\ op = "CollectionSchema::new" =>
            /\ \A i \in 1..Len(arg.fields) :
                    is_primary(arg.fields[i])
                        => arg.fields[i].ty.kind \in {"Int64", "VarChar"}
            /\ (\A i \in 1..Len(arg.fields) :
                    arg.fields[i].ty.kind \notin {"Int64", "VarChar"})
                        => ret = Err(SchemaErr(NoPrimaryKey))

\* A wire field of type Bool with the primary-key flag set became a field
\* that is no primary key.
C13_Witness ==
    /\ op = "FieldSchema::from"
    /\ arg.data_type = 1
    /\ arg.is_primary_key
    /\ ret.tag = "Ret"
    /\ ret.val.ty.kind = "Bool"
    /\ ~is_primary(ret.val)

\* The auto-id flag of a field.
C14_AutoId(f) == f.ty.kind \in {"Int64", "VarChar"} /\ f.ty.auto

\* C14: no field of a schema that CollectionSchema::new accepted, and no wire
\* field made from one, has the auto-id flag without the primary-key flag.
C14_AutoIdOnlyOnPrimaryKey ==
    /\ (op = "CollectionSchema::new" /\ ret.tag = "Ok") =>
            \A i \in 1..Len(ret.val.fields) :
                C14_AutoId(ret.val.fields[i]) => is_primary(ret.val.fields[i])
    /\ op = "create_collection" =>
            \A k \in 1..Len(sent) :
                \A i \in 1..Len(sent[k].message.schema.bytes_of.fields) :
                    LET w == sent[k].message.schema.bytes_of.fields[i]
                    IN  w.auto_id => w.is_primary_key

\* C15: for a field list with exactly one primary-key field (whatever its
\* field names, dimensions and max_lengths) CollectionSchema::new returns Ok
\* with the given fields unchanged and in the given order, the given name, and
\* the given description or the empty string.
C15_NoOtherValidation ==
    (op = "CollectionSchema::new" /\ Cardinality(PrimaryIndices(arg.fields)) = 1) =>
        /\ ret.tag = "Ok"
        /\ ret.val.fields = arg.fields
        /\ ret.val.name = arg.name
        /\ ret.val.description =
                (IF arg.description.some THEN arg.description.val ELSE "")

\* A list of two fields with the same name, one of them a vector field of
\* dimension 0, was accepted without a description.
C15_Witness ==
    /\ op = "CollectionSchema::new"
    /\ Len(arg.fields) = 2
    /\ Cardinality(PrimaryIndices(arg.fields)) = 1
    /\ \E i, j \in 1..2 :
        /\ i # j
        /\ arg.fields[i].ty = FtVector("BinaryVector", 0)
        /\ arg.fields[j].ty = FtVarChar(200, TRUE, FALSE)
    /\ ~arg.description.some
    /\ ret.tag = "Ok"
    /\ ret.val.description = ""

\* The calls that carry a request to the server.
C16_Calls == {"create_collection", "drop_collection", "has_collection", "query", "search"}

\* The channel answered the call with a transport error, or the response has
\* no status or a status other than Success.
C16_Failed ==
    /\ op \in {"drop_collection", "has_collection", "query", "search"}
    /\ \/ arg.reply.tag = "TransportError"
       \/ /\ op = "drop_collection"
          /\ arg.reply.status.error_code # 0
       \/ /\ op # "drop_collection"
          /\ \/ ~arg.reply.response.status.some
             \/ arg.reply.response.status.val.error_code # 0

\* C16: every call hands exactly one request to the channel, and when the
\* channel returns a transport error or a status other than Success the call
\* returns an error with that one request sent (no second request, no retry).
C16_OneRequestNoRetry ==
    /\ op \in C16_Calls => Len(sent) = 1
    /\ C16_Failed => ret.tag = "Err"

\* C17: a schema error is returned only by CollectionSchema::new, with no
\* request built or sent, and create_collection is only ever called with a
\* schema that passed the primary-key check; no call that sent a request
\* returns a schema error.
C17_SchemaErrorBeforeNetwork ==
    /\ (ret.tag = "Err" /\ ret.err.kind = "Schema")
            => (op = "CollectionSchema::new" /\ sent = <<>>)
    /\ op = "CollectionSchema::new" => sent = <<>>
    /\ op = "create_collection" => PrimaryIndices(arg.schema.fields) # {}
    /\ sent # <<>> => ~(ret.tag = "Err" /\ ret.err.kind = "Schema")

\* With a connected client at hand, a field list without a primary key was
\* rejected and nothing was sent.
C17_Witness ==
    /\ op = "CollectionSchema::new"
    /\ client.some
    /\ arg.fields # <<>>
    /\ ret = Err(SchemaErr(NoPrimaryKey))
    /\ sent = <<>>

\* The value of a character of the standard base64 alphabet.
C18_Value(c) == IndexOf(Base64Alphabet, c) - 1

\* v is the standard base64 encoding of the text: four characters for every
\* three bytes, which decode to the bytes of the text, and padding with "="
\* behind the last byte.
C18_IsBase64Of(v, text) ==
    LET n == Len(text)
        byte(k) == AsciiCode(text[k])
        c(g, j) == v[(4 * g) + j]
    IN  /\ Len(v) = 4 * ((n + 2) \div 3)
        /\ \A k \in 1..n :
            LET g == (k - 1) \div 3
                pos == (k - 1) % 3
            IN  CASE pos = 0 ->
                        /\ Occurs(Base64Alphabet, c(g, 1))
                        /\ Occurs(Base64Alphabet, c(g, 2))
                        /\ byte(k) = (C18_Value(c(g, 1)) * 4)
                                        + (C18_Value(c(g, 2)) \div 16)
                        /\ k = n => (C18_Value(c(g, 2)) % 16 = 0
                                        /\ c(g, 3) = "=" /\ c(g, 4) = "=")
                  [] pos = 1 ->
                        /\ Occurs(Base64Alphabet, c(g, 3))
                        /\ byte(k) = ((C18_Value(c(g, 2)) % 16) * 16)
                                        + (C18_Value(c(g, 3)) \div 4)
                        /\ k = n => (C18_Value(c(g, 3)) % 4 = 0 /\ c(g, 4) = "=")
                  [] pos = 2 ->
                        /\ Occurs(Base64Alphabet, c(g, 4))
                        /\ byte(k) = ((C18_Value(c(g, 3)) % 4) * 64)
                                        + C18_Value(c(g, 4))

\* The authorization entries of a request.
C18_Authorization(req) == {kv.value : kv \in {x \in req.metadata : x.key = "authorization"}}

\* C18: a client built with a user name and a password holds the standard
\* base64 encoding of "username:password" (for root and Milvus:
\* cm9vdDpNaWx2dXM=), a client built without one of them holds no token; every
\* request a call hands to the channel carries exactly the client's token as
\* its authorization value, or no authorization entry when there is no token;
\* and the client never changes once it is built.
C18_AuthorizationHeader ==
    /\ [](/\ (op = "Client::new" /\ ret.tag = "Ok") =>
                /\ client = Some(ret.val)
                /\ IF arg.username.some /\ arg.password.some
                   THEN /\ client.val.interceptor.token.some
                        /\ C18_IsBase64Of(client.val.interceptor.token.val,
                                arg.username.val \o <<":">> \o arg.password.val)
                        /\ (arg.username.val = <<"r", "o", "o", "t">>
                               /\ arg.password.val = <<"M", "i", "l", "v", "u", "s">>)
                            => client.val.interceptor.token.val =
                                <<"c", "m", "9", "v", "d", "D", "p", "N",
                                  "a", "W", "x", "2", "d", "X", "M", "=">>
                   ELSE ~client.val.interceptor.token.some
          /\ sent # <<>> =>
                /\ client.some
                /\ \A i \in 1..Len(sent) :
                    C18_Authorization(sent[i]) =
                        (IF client.val.interceptor.token.some
                         THEN {client.val.interceptor.token.val}
                         ELSE {}))
    /\ [][client.some => client' = client]_vars

\* A client built for root and Milvus sent a request with the authorization
\* value cm9vdDpNaWx2dXM=.
C18_Witness ==
    /\ op = "has_collection"
    /\ Len(sent) = 1
    /\ C18_Authorization(sent[1]) =
            {<<"c", "m", "9", "v", "d", "D", "p", "N",
               "a", "W", "x", "2", "d", "X", "M", "=">>}

\* The identifiers of a search result and the wire identifiers they were
\* built from hold the same values.
C20_SameIds(r, w) ==
    /\ r.some = w.some
    /\ r.some =>
        /\ r.val.id_field.some = w.val.id_field.some
        /\ r.val.id_field.some =>
            /\ r.val.id_field.val.variant = w.val.id_field.val.variant
            /\ r.val.id_field.val.v = w.val.id_field.val.arr.data

\* C20: for every SearchResultData of a successful search response, whether
\* or not the number of scores is the sum of topks, the conversion succeeds
\* and the result has the response's num_queries, top_k, scores, topks and
\* ids and its columns in the response's order.
C20_SearchResultPassThrough ==
    (/\ op = "search"
     /\ arg.reply.tag = "Response"
     /\ arg.reply.response.status = Some([error_code |-> 0, reason |-> ""])
     /\ arg.reply.response.results.some) =>
        LET w == arg.reply.response.results.val
        IN  /\ ret.tag = "Ok"
            /\ ret.val.results.some
            /\ ret.val.results.val.num_queries = w.num_queries
            /\ ret.val.results.val.top_k = w.top_k
            /\ ret.val.results.val.scores = w.scores
            /\ ret.val.results.val.topks = w.topks
            /\ C20_SameIds(ret.val.results.val.id, w.ids)
            /\ Len(ret.val.results.val.fields_data) = Len(w.fields_data)
            /\ \A i \in 1..Len(w.fields_data) :
                /\ ret.val.results.val.fields_data[i].field_name
                        = w.fields_data[i].field_name
                /\ ret.val.results.val.fields_data[i].field_id
                        = w.fields_data[i].field_id

\* C21: insert and delete with a Success status return a MutationResult whose
\* ids (integer, string or absent), succ_index, err_index, acknowledged,
\* insert_cnt, delete_cnt, upsert_cnt and timestamp are the response's,
\* whether or not the counts agree with the index lists or with the rows sent.
C21_MutationResultPassThrough ==
    (/\ op \in {"insert", "delete"}
     /\ arg.reply.tag = "Response"
     /\ arg.reply.response.status.some
     /\ arg.reply.response.status.val.error_code = 0) =>
        LET w == arg.reply.response
        IN  /\ ret.tag = "Ok"
            /\ C20_SameIds(ret.val.id, w.i_ds)
            /\ ret.val.succ_index = w.succ_index
            /\ ret.val.err_index = w.err_index
            /\ ret.val.acknowledged = w.acknowledged
            /\ ret.val.insert_cnt = w.insert_cnt
            /\ ret.val.delete_cnt = w.delete_cnt
            /\ ret.val.upsert_cnt = w.upsert_cnt
            /\ ret.val.timestamp = w.timestamp

\* An insert of one column of two rows, announced as 0 rows, returned a
\* result with string ids and an insert count of 7 beside one success index.
C21_Witness ==
    /\ op = "insert"
    /\ Len(arg.fields_data) = 1
    /\ arg.num_rows = 0
    /\ ret.tag = "Ok"
    /\ ret.val.insert_cnt = 7
    /\ Len(ret.val.succ_index) = 1
    /\ ret.val.id.some
    /\ ret.val.id.val.id_field.some
    /\ ret.val.id.val.id_field.val.variant = "StrId"

\* C27: the insert of my_client.rs sends num_rows equal to the number of
\* columns handed in, whatever the number of rows in each column, and sends
\* the columns unchanged and in order.
C27_NumRowsIsColumnCount ==
    (op = "my_client::insert" /\ sent # <<>>) =>
        LET request == sent[1].message
            cols == arg.fields_data
        IN  /\ request.num_rows = Len(cols)
            /\ Len(request.fields_data) = Len(cols)
            /\ \A i \in 1..Len(cols) :
                /\ request.fields_data[i].field_name = cols[i].field_name
                /\ request.fields_data[i].type = cols[i].data_type
                /\ request.fields_data[i].field_id = cols[i].field_id
                /\ request.fields_data[i].field.some
                /\ request.fields_data[i].field.val.variant = cols[i].field.val.variant
                /\ request.fields_data[i].field.val.f.data.val.variant
                        = cols[i].field.val.f.data.val.variant
                /\ request.fields_data[i].field.val.f.data.val.arr.data
                        = cols[i].field.val.f.data.val.v

\* Two columns, the first of three rows and the second of one, went out
\* with num_rows 2.
C27_Witness ==
    /\ op = "my_client::insert"
    /\ sent # <<>>
    /\ Len(arg.fields_data) = 2
    /\ Len(arg.fields_data[1].field.val.f.data.val.v) = 3
    /\ Len(arg.fields_data[2].field.val.f.data.val.v) = 1
    /\ sent[1].message.num_rows = 2

\* C24: num_rows() of a ScalarField is the length of the populated array and
\* 0 when none is populated; num_rows() of a FieldData is 0 without a payload
\* and the row count of the payload otherwise: the array length of a scalar
\* payload, and for a vector payload whatever VectorField::num_rows gives for
\* it (C5, C6).
C24_NumRows ==
    /\ op = "ScalarField::num_rows" =>
        ret = Ret(IF arg.data.some THEN Len(arg.data.val.v) ELSE 0)
    /\ op = "FieldData::num_rows" =>
        /\ ~arg.field.some => ret = Ret(0)
        /\ (arg.field.some /\ arg.field.val.variant = "Scalars") =>
            ret = Ret(IF arg.field.val.f.data.some
                      THEN Len(arg.field.val.f.data.val.v) ELSE 0)
        /\ (arg.field.some /\ arg.field.val.variant = "Vectors") =>
            ret = VectorField_num_rows(arg.field.val.f)

\* A column of two strings was counted as two rows.
C24_Witness ==
    /\ op = "FieldData::num_rows"
    /\ arg.field.some
    /\ arg.field.val.variant = "Scalars"
    /\ arg.field.val.f.data.some
    /\ arg.field.val.f.data.val.variant = "StringData"
    /\ Len(arg.field.val.f.data.val.v) = 2
    /\ ret = Ret(2)

\* The type of a payload: Field::dtype of it, None without one.
C28_PayloadType(fd) ==
    IF fd.field.some THEN Field_dtype(fd.field.val) ELSE "None"

\* C28: dtype() of a FieldData is the type it was declared with, whatever
\* its payload's type is; FieldData::new accepts every pair of declared type
\* and payload; and insert sends each column with the code of its declared
\* type, also when the payload's dtype() differs from it.
C28_DeclaredTypeWins ==
    /\ op = "FieldData::dtype" => ret = Ret(arg.data_type)
    /\ \A dt \in DataTypes, fd \in InsertColumns :
        LET made == FieldData_new(fd.field_name, dt, fd.field)
        IN  made.data_type = dt /\ made.field = fd.field
    /\ (op = "insert" /\ sent # <<>>) =>
        \A i \in 1..Len(arg.fields_data) :
            sent[1].message.fields_data[i].type
                = DataTypeCode(arg.fields_data[i].data_type)

\* An insert sent a column declared VarChar (code 21) whose string payload
\* has the dtype String, and a column declared FloatVector (code 101) over a
\* scalar payload.
C28_Witness ==
    /\ op = "insert"
    /\ sent # <<>>
    /\ Len(arg.fields_data) = 2
    /\ arg.fields_data[1].data_type = "VarChar"
    /\ C28_PayloadType(arg.fields_data[1]) = "String"
    /\ sent[1].message.fields_data[1].type = 21
    /\ arg.fields_data[2].data_type = "FloatVector"
    /\ arg.fields_data[2].field.val.variant = "Scalars"
    /\ sent[1].message.fields_data[2].type = 101

\* C29: get_gts gives 0 for Strong, 2 for Bounded, 1 for Eventually and 0 for
\* Customized, and panics as unimplemented for Session, which is the level
\* create_collection takes when none is given.
C29_GuaranteeTimestamps ==
    /\ DefaultConsistencyLevel = "Session"
    /\ op = "get_gts" =>
        /\ arg = "Strong" => ret = Ret(0)
        /\ arg = "Bounded" => ret = Ret(2)
        /\ arg = "Eventually" => ret = Ret(1)
        /\ arg = "Customized" => ret = Ret(0)
        /\ arg = "Session" => ret = Panic("not implemented")

\* get_gts was called with the default level of create_collection and did
\* not return.
C29_Witness ==
    /\ op = "get_gts"
    /\ arg = DefaultConsistencyLevel
    /\ ret.tag = "Panic"

\* C30: create_collection sends shards_num 2 when none is given, the
\* consistency level Session (code 1) when none is given and no property when
\* none is given, and sends given values unchanged.
C30_DefaultsSent ==
    op = "create_collection" =>
        /\ Len(sent) = 1
        /\ LET request == sent[1].message
           IN  /\ request.shards_num
                    = (IF arg.shards_num.some THEN arg.shards_num.val ELSE 2)
               /\ request.consistency_level
                    = (IF arg.level.some THEN ConsistencyLevelCode(arg.level.val) ELSE 1)
               /\ Len(request.properties)
                    = (IF arg.properties.some THEN Cardinality(arg.properties.val) ELSE 0)

\* C23: every call of the client that carries a request to the server comes
\* back to its caller with a result (the response's, or the error of the
\* transport or of its timeout), and the timeout that Client::new sets on the
\* connection is 10 seconds when none is given and the given one otherwise.
C23_CallsReturn ==
    /\ op \in {"create_collection", "drop_collection", "has_collection", "query",
               "search", "insert", "delete", "my_client::insert"}
            => ret.tag \in {"Ok", "Err"}
    /\ (op = "Client::new" /\ ret.tag = "Ok") =>
            ret.val.timeout = (IF arg.timeout.some THEN arg.timeout.val ELSE 10)

\* The calls that decode an enumeration code of the response.
C25_Calls ==
    {"describe_collection", "get_persistent_segment_info", "get_query_segment_info",
     "get_compaction_state", "get_import_state"}

\* The response of the last call carries a code that its enumeration lacks.
C25_UnmappedCode ==
    /\ arg.reply.tag = "Response"
    /\ CASE op = "describe_collection" ->
                \/ arg.reply.response.consistency_level \notin 0..4
                \/ /\ arg.reply.response.schema.some
                   /\ \E i \in 1..Len(arg.reply.response.schema.val.fields) :
                        arg.reply.response.schema.val.fields[i].data_type
                            \notin KnownTypeTags
         [] op \in {"get_persistent_segment_info", "get_query_segment_info"} ->
                \E i \in 1..Len(arg.reply.response.infos) :
                    arg.reply.response.infos[i].state \notin 0..7
         [] op = "get_compaction_state" -> arg.reply.response.state \notin 0..2
         [] op = "get_import_state" -> arg.reply.response.state \notin {0, 1, 2, 5, 6, 7}

\* The status of the last call's response is Success.
C25_Success ==
    /\ arg.reply.tag = "Response"
    /\ arg.reply.response.status.some
    /\ arg.reply.response.status.val.error_code = 0

\* C25: each of the five calls checks the status before it decodes the
\* payload: a response without the Success status gives Err, whatever codes it
\* carries, and a code that the enumeration lacks makes the call panic only,
\* and always, under the Success status.
C25_StatusCheckedFirst ==
    op \in C25_Calls =>
        /\ (arg.reply.tag = "Response" /\ ~C25_Success) => ret.tag = "Err"
        /\ ret.tag = "Panic" => (C25_Success /\ C25_UnmappedCode)
        /\ (C25_Success /\ C25_UnmappedCode) => ret.tag = "Panic"

\* get_import_state returned the server's error for a response whose state
\* code 3 is not in the enumeration.
C25_Witness ==
    /\ op = "get_import_state"
    /\ arg.reply.tag = "Response"
    /\ arg.reply.response.state = 3
    /\ arg.reply.response.status = Some([error_code |-> 1, reason |-> "boom"])
    /\ ret.tag = "Err"
    /\ ret.err.kind = "Server"

\* The names, the ids and the lengths of the parallel arrays of the last
\* call's response.
C26_Names ==
    IF op = "show_partitions" THEN arg.reply.response.partition_names
    ELSE arg.reply.response.collection_names

C26_Ids ==
    IF op = "show_partitions" THEN arg.reply.response.partition_i_ds
    ELSE arg.reply.response.collection_ids

C26_Lengths ==
    {Len(C26_Ids), Len(arg.reply.response.created_timestamps),
     Len(arg.reply.response.created_utc_timestamps),
     Len(arg.reply.response.in_memory_percentages)}
    \cup (IF op = "my_client::show_collections"
          THEN {Len(arg.reply.response.query_service_available)} ELSE {})

\* C26: with the Success status, show_collections and show_partitions return
\* one entry per name of the response, in its order, entry i made of element
\* i of the ids, the created timestamps, the UTC timestamps and the in-memory
\* percentages; when one of these arrays is shorter than the name list the
\* call panics.
C26_EntriesFromParallelArrays ==
    (/\ op \in {"show_collections", "my_client::show_collections", "show_partitions"}
     /\ C25_Success) =>
        IF \E len \in C26_Lengths : len < Len(C26_Names)
        THEN ret.tag = "Panic"
        ELSE /\ ret.tag = "Ok"
             /\ Len(ret.val) = Len(C26_Names)
             /\ \A i \in 1..Len(C26_Names) :
                /\ ret.val[i].name = C26_Names[i]
                /\ ret.val[i].id = C26_Ids[i]
                /\ ret.val[i].created_timestamp
                        = arg.reply.response.created_timestamps[i]
                /\ ret.val[i].created_utc_timestamp
                        = arg.reply.response.created_utc_timestamps[i]
                /\ "in_memory_percentage" \in DOMAIN ret.val[i]
                /\ ret.val[i].in_memory_percentage
                        = arg.reply.response.in_memory_percentages[i]

(***************************************************************************)
(* Concurrent calls on one client.  Each call is a future: it runs from    *)
(* its start to the await of the channel in one step (the request is built *)
(* from the arguments, the client handle is cloned and the interceptor     *)
(* adds the header), and from the arrival of its response to its return in *)
(* another.  The steps of the calls interleave in any order.  arg and ret  *)
(* hold the arguments and the state of each call, sent the requests in the *)
(* order the channel got them, each with the call it belongs to.           *)
(***************************************************************************)
MaxCalls == 2

CallIds == 1..MaxCalls

Idle == [tag |-> "Idle"]
Pending == [tag |-> "Pending"]

ConcCollectionNames == {"c1", "c2"}

\* Clients as Client::new returns them: without and with credentials.
ConcClients ==
    {Client_new("localhost", 19530, None, None, None, "connected").val,
     Client_new("localhost", 19530, Some(<<"r", "o", "o", "t">>),
                Some(<<"M", "i", "l", "v", "u", "s">>), Some(3), "connected").val}

\* What the channel hands back to a has_collection and a drop_collection.
ConcBoolReplies ==
    TransportErrors
    \cup {[tag |-> "Response",
           response |-> [status |-> Some([error_code |-> 0, reason |-> ""]),
                         value |-> v]] : v \in BOOLEAN}
    \cup {[tag |-> "Response",
           response |-> [status |-> Some([error_code |-> 1, reason |-> "boom"]),
                         value |-> FALSE]]}

ConcStatusReplies ==
    TransportErrors
    \cup {[tag |-> "Response", status |-> [error_code |-> c, reason |-> ""]] :
            c \in {0, 1}}

\* The state after Client::new returned the client and before any call.
ConcInit ==
    /\ op = "Client::new"
    /\ client \in {Some(c) : c \in ConcClients}
    /\ arg = [i \in CallIds |-> None]
    /\ ret = [i \in CallIds |-> Idle]
    /\ sent = <<>>

\* Call i starts has_collection and runs to its await.
BeginHasCollection(i) ==
    /\ ret[i] = Idle
    /\ UNCHANGED client
    /\ \E collection_name \in ConcCollectionNames :
        LET out == has_collection(client.val, collection_name, None,
                                  CHOOSE r \in TransportErrors : TRUE)
        IN  /\ op' = "has_collection"
            /\ arg' = [arg EXCEPT ![i] = Some([method |-> "has_collection",
                                               collection_name |-> collection_name,
                                               reply |-> None])]
            /\ ret' = [ret EXCEPT ![i] = IF out.sent = <<>> THEN out.ret ELSE Pending]
            /\ sent' = sent \o [k \in 1..Len(out.sent) |->
                                    [call |-> i, request |-> out.sent[k]]]

\* The response of call i arrives and has_collection returns.
ReturnHasCollection(i) ==
    /\ ret[i] = Pending
    /\ arg[i].val.method = "has_collection"
    /\ UNCHANGED <<client, sent>>
    /\ \E reply \in ConcBoolReplies :
        /\ op' = "has_collection"
        /\ arg' = [arg EXCEPT ![i] = Some([@.val EXCEPT !.reply = Some(reply)])]
        /\ ret' = [ret EXCEPT ![i] =
                    has_collection(client.val, arg[i].val.collection_name, None,
                                   reply).ret]

\* Call i starts drop_collection and runs to its await.
BeginDropCollection(i) ==
    /\ ret[i] = Idle
    /\ UNCHANGED client
    /\ \E collection_name \in ConcCollectionNames :
        LET out == drop_collection(client.val, collection_name,
                                   CHOOSE r \in TransportErrors : TRUE)
        IN  /\ op' = "drop_collection"
            /\ arg' = [arg EXCEPT ![i] = Some([method |-> "drop_collection",
                                               collection_name |-> collection_name,
                                               reply |-> None])]
            /\ ret' = [ret EXCEPT ![i] = IF out.sent = <<>> THEN out.ret ELSE Pending]
            /\ sent' = sent \o [k \in 1..Len(out.sent) |->
                                    [call |-> i, request |-> out.sent[k]]]

\* The response of call i arrives and drop_collection returns.
ReturnDropCollection(i) ==
    /\ ret[i] = Pending
    /\ arg[i].val.method = "drop_collection"
    /\ UNCHANGED <<client, sent>>
    /\ \E reply \in ConcStatusReplies :
        /\ op' = "drop_collection"
        /\ arg' = [arg EXCEPT ![i] = Some([@.val EXCEPT !.reply = Some(reply)])]
        /\ ret' = [ret EXCEPT ![i] =
                    drop_collection(client.val, arg[i].val.collection_name, reply).ret]

ConcNext ==
    \E i \in CallIds :
        \/ BeginHasCollection(i)
        \/ ReturnHasCollection(i)
        \/ BeginDropCollection(i)
        \/ ReturnDropCollection(i)

ConcSpec == ConcInit /\ [][ConcNext]_vars

\* The result the claim C22 expects of a call from its own response alone.
C22_ResultOf(call) ==
    LET reply == call.reply.val
    IN  IF reply.tag = "TransportError" THEN Err(Grpc(reply.status))
        ELSE IF call.method = "has_collection"
        THEN (IF reply.response.status.val.error_code = 0
              THEN Ok(reply.response.value)
              ELSE Err(Server(ErrorCodeFromI32(reply.response.status.val.error_code).val,
                              reply.response.status.val.reason)))
        ELSE (IF reply.status.error_code = 0 THEN Ok(Unit)
              ELSE Err(Server(ErrorCodeFromI32(reply.status.error_code).val,
                              reply.status.reason)))

\* C22: in every interleaving of the calls on one client, the client (its
\* token and its connection handle) stays as Client::new built it, each
\* request the channel got carries the name of the call it belongs to and of
\* no other, and each call that returned returned what its own response
\* gives.
C22_CallsAreIndependent ==
    /\ [](/\ client.some
          /\ \A k \in 1..Len(sent) :
                /\ arg[sent[k].call].some
                /\ sent[k].request.message.collection_name
                        = arg[sent[k].call].val.collection_name
                /\ sent[k].request.method
                        = (IF arg[sent[k].call].val.method = "has_collection"
                           THEN "HasCollection" ELSE "DropCollection")
                /\ \A j \in 1..Len(sent) : (j # k) => sent[j].call # sent[k].call
          /\ \A i \in CallIds :
                /\ ret[i] = Idle <=> ~arg[i].some
                /\ (arg[i].some /\ ~arg[i].val.reply.some) => ret[i] = Pending
                /\ (arg[i].some /\ arg[i].val.reply.some)
                        => ret[i] = C22_ResultOf(arg[i].val))
    /\ [][client' = client]_vars

\* Two calls were with the channel at once, for different collections; the
\* second returned first, with false, and the first is still waiting.
C22_Witness ==
    /\ Len(sent) = 2
    /\ sent[1].call = 1
    /\ sent[2].call = 2
    /\ sent[1].request.message.collection_name = "c1"
    /\ sent[2].request.message.collection_name = "c2"
    /\ ret[1] = Pending
    /\ arg[2].val.method = "has_collection"
    /\ ret[2].tag = "Ok"
    /\ ret[2].val = FALSE

====
